---- MODULE Spec2Model ----
(***************************************************************************)
(* TubeCord: YouTube -> Discord relay.                                     *)
(*                                                                         *)
(* Three specifications over one set of variables:                         *)
(*   SpecClassify  the notification classifier, a function of the event    *)
(*                 descriptor and of the metadata API's answer             *)
(*                 (app/models/notification.py);                           *)
(*   SpecNotify    the webhook request path: classify, filter, fan out to  *)
(*                 the Discord servers of the content type, one network    *)
(*                 call per step (main.py, app/discord/client.py);         *)
(*   SpecPoll      the community-post coordinator: the scheduler loop and  *)
(*                 the request threads that force a check, the scraper,    *)
(*                 the community_posts table and the notification handler  *)
(*                 (app/utils/scheduler.py, app/utils/community_scraper.py)*)
(***************************************************************************)
EXTENDS Integers, Sequences, FiniteSets, TLC

\* ------------------------------------------------------------------------
\* Bounds of the model
\* ------------------------------------------------------------------------

\* longest title, in tokens
MaxTitleLen == 2

\* most consecutive 429 answers the endpoint gives to one send
MaxThrottle == 3

\* ------------------------------------------------------------------------
\* NotificationType (app/models/notification.py)
\* ------------------------------------------------------------------------

UPLOAD == "upload"

LIVESTREAM == "livestream"

LIVESTREAM_LIVE == "livestream_live"

LIVESTREAM_COMPLETED == "livestream_completed"

COMMUNITY_POST == "community"

NotificationType == {UPLOAD, LIVESTREAM, LIVESTREAM_LIVE, LIVESTREAM_COMPLETED, COMMUNITY_POST, "unknown"}

\* ------------------------------------------------------------------------
\* Titles: a title is a sequence of tokens; str.lower() and the substring
\* test `indicator in title` are computed on the tokens.
\* ------------------------------------------------------------------------

TitleVocab == {"vlog", "live", "LIVE", "q", "a"}

RECURSIVE SeqsUpTo(_, _)
SeqsUpTo(S, n) ==
    IF n = 0 THEN {<<>>}
    ELSE LET shorter == SeqsUpTo(S, n - 1)
         IN  shorter \cup {Append(s, x) : s \in {t \in shorter : Len(t) = n - 1}, x \in S}

Titles == SeqsUpTo(TitleVocab, MaxTitleLen)

lower_token(tok) ==
    CASE tok = "LIVE" -> "live"
      [] tok = "STREAM" -> "stream"
      [] tok = "Q" -> "q"
      [] tok = "A" -> "a"
      [] tok = "SHA256" -> "sha256"
      [] tok = "SHA1" -> "sha1"
      [] OTHER -> tok

lower(title) == [i \in 1..Len(title) |-> lower_token(title[i])]

\* Python's `indicator in title` on strings
contains(title, indicator) ==
    \E i \in 1..(Len(title) - Len(indicator) + 1) :
        SubSeq(title, i, i + Len(indicator) - 1) = indicator

\* live_indicators of _fallback_title_detection
fallback_live_indicators ==
    { <<"live">>, <<"stream", "ing">>, <<"stream">>, <<"live", "stream">>, <<"red_circle">>,
      <<"going", " ", "live">>, <<"now", " ", "live">>, <<"live", " ", "now">>,
      <<"live", " ", "stream">>, <<"chat">>, <<"q", "&", "a">>, <<"q", "a">>,
      <<"talk">>, <<"discussion">> }

\* live_indicators of _determine_notification_type
api_live_indicators ==
    { <<"live">>, <<"stream", "ing">>, <<"stream">>, <<"live", "stream">>, <<"red_circle">> }

\* ------------------------------------------------------------------------
\* Event descriptors (the dict that parse_notification builds) and the
\* answers of the YouTube Data API
\* ------------------------------------------------------------------------

\* values of data['live_broadcast_content']; "" is an absent key
Hints == {"", "live", "LIVE", "upcoming", "completed", "none"}

lower_hint(h) == IF h = "LIVE" THEN "live" ELSE h

\* snippet.liveBroadcastContent; "" is an absent key
BroadcastFlags == {"", "none", "live", "upcoming", "completed"}

\* status.uploadStatus; "" is an absent key
UploadStatuses == {"", "uploaded", "processed"}

\* status.lifeCycleStatus is not among the requested `fields`, so the API never returns it
LifeCycleStatuses == {""}

ApiItems ==
    [ liveBroadcastContent : BroadcastFlags,
      liveStreamingDetails : BOOLEAN,
      scheduledStartTime : BOOLEAN,
      actualStartTime : BOOLEAN,
      actualEndTime : BOOLEAN,
      uploadStatus : UploadStatuses,
      lifeCycleStatus : LifeCycleStatuses ]

\* an item is well formed when its times sit inside a liveStreamingDetails block
WellFormedItems ==
    { it \in ApiItems :
        (~it.liveStreamingDetails) =>
            (~it.scheduledStartTime /\ ~it.actualStartTime /\ ~it.actualEndTime) }

NoItem ==
    [ liveBroadcastContent |-> "", liveStreamingDetails |-> FALSE, scheduledStartTime |-> FALSE,
      actualStartTime |-> FALSE, actualEndTime |-> FALSE, uploadStatus |-> "", lifeCycleStatus |-> "" ]

\* outcomes of requests.get(api_url) followed by response.json()
ApiFailures == {"network_error", "status_403", "status_other", "malformed_json"}

ApiResponses ==
    [outcome : ApiFailures \cup {"no_items"}, item : {NoItem}]
        \cup [outcome : {"item"}, item : WellFormedItems]

NotCalled == [outcome |-> "not_called", item |-> NoItem]

\* the parsed notification dict, as far as classification reads it
EventData ==
    [ video_id : BOOLEAN,
      title : Titles,
      live_broadcast_content : Hints,
      scheduled_start_time : BOOLEAN,
      actual_start_time : BOOLEAN ]

\* parse_notification sets neither start time
ParsedEvents == { d \in EventData : ~d.scheduled_start_time /\ ~d.actual_start_time }

VARIABLES
    c_pc,       \* classifier: "input" before from_websub_data, "classified" after
    c_key,      \* classifier: YOUTUBE_API_KEY is set
    c_data,     \* classifier: the notification dict (enriched in place by the lookup)
    c_api,      \* classifier: the answer of the metadata lookup, NotCalled if none was made
    c_type      \* classifier: the NotificationType returned

classify_vars == <<c_pc, c_key, c_data, c_api, c_type>>

VARIABLES
    settings,        \* Settings: the number of webhook URLs configured per content type
    discord_config   \* DiscordConfiguration.servers: a sequence of DiscordServer records

config_vars == <<settings, discord_config>>

VARIABLES
    n_pc,            \* request path: "off", "received", "sending" or "done"
    n_published,     \* request path: data['published'] of the event
    n_todo,          \* request path: servers the for loop has still to send to
    success_count,   \* request path: success_count of process_youtube_notification
    n_sends,         \* request path: calls of send_youtube_notification made for the event
    n_send,          \* request path: the send_webhook_message call in progress or last finished
    n_result         \* request path: what process_youtube_notification returned

notify_vars == <<n_pc, n_published, n_todo, success_count, n_sends, n_send, n_result>>

VARIABLES
    now,             \* wall clock, in the unit of the scraper's time_since strings
    feed,            \* the channel's community tab: publish time of each post, oldest first
    db,              \* the community_posts table: a set of rows
    pc,              \* per thread: where it is in _run_scheduler / force_check
    raw,             \* per thread: posts_data of scrape_channel_posts still to parse and store
    new_posts,       \* per thread: new_posts of the check in progress
    latest_post,     \* per thread: latest_post of handle_new_posts
    history,         \* per post id: what has happened to it (store_post results, sends)
    retry_due        \* per thread: the posts left unnotified by failed sends when its check began

poll_vars == <<now, feed, db, pc, raw, new_posts, latest_post, history, retry_due>>

VARIABLES
    h_clock,          \* handle cache: wall clock, in units of 1/UnitsPerDay day
    channel_handles,  \* handle cache: the row of the channel in channel_handles, NoEntry if none
    h_call            \* handle cache: the last _resolve_channel_handle call, NoCall once time has passed

handle_vars == <<h_clock, channel_handles, h_call>>

\* the variables of the request path and of the poll coordinator
core_vars == <<classify_vars, config_vars, notify_vars, poll_vars>>

VARIABLES
    rt_pc,     \* round trip: "post", "stored" after store_post, "read" after _row_to_post
    rt_post,   \* round trip: the CommunityPost given to store_post
    rt_row,    \* round trip: its row in community_posts
    rt_back    \* round trip: the CommunityPost that _row_to_post built from the row

rt_vars == <<rt_pc, rt_post, rt_row, rt_back>>

VARIABLES
    callback_secret,          \* webhook route: settings.CALLBACK_SECRET
    last_verification_time,   \* webhook route: subscription_manager.last_verification_time
    last_notification_time,   \* webhook route: subscription_manager.last_notification_time
    w_now,                    \* webhook route: datetime.now(timezone.utc) during the request
    w_pc,                     \* webhook route: "idle", "processing" inside process_youtube_notification, "answered"
    w_request,                \* webhook route: the request being served
    w_calls,                  \* webhook route: the functions the route has called for it
    w_response                \* webhook route: the (body, status) returned

web_vars == <<callback_secret, last_verification_time, last_notification_time, w_now,
              w_pc, w_request, w_calls, w_response>>

VARIABLES
    s_pc,       \* verify_signature: "call" before the call, "returned" after
    s_headers,  \* verify_signature: its headers argument
    s_body,     \* verify_signature: its body argument
    s_secret,   \* verify_signature: its secret argument
    s_result    \* verify_signature: what the call returned or raised

sig_vars == <<s_pc, s_headers, s_body, s_secret, s_result>>

VARIABLES
    r_clock,            \* rate limit: time.time(), in tenths of a second
    last_request_time,  \* rate limit: last_request_time of each DiscordClient
    r_pc,               \* rate limit: where each thread is in _enforce_rate_limit
    r_wake,             \* rate limit: when the time.sleep of each thread ends
    r_calls             \* rate limit: the last two requests.post of the process

rate_vars == <<r_clock, last_request_time, r_pc, r_wake, r_calls>>

VARIABLES
    running,                 \* scheduler: CommunityPostScheduler.running
    check_interval_seconds,  \* scheduler: check_interval_minutes * 60
    k_pc,                    \* scheduler: where the loop thread is in _run_scheduler
    wait_time,               \* scheduler: wait_time of _wait_for_next_check
    k_sleep,                 \* scheduler: seconds left of the time.sleep the thread is in
    k_stopped_for,           \* scheduler: seconds since stop() cleared the flag
    k_cycles,                \* scheduler: check cycles started
    k_cycles_at_stop,        \* scheduler: check cycles started when stop() cleared the flag
    k_raised,                \* scheduler: exceptions that reached _run_scheduler, by the call that raised
    k_on_error               \* scheduler: calls of the on_error callback

sched_vars == <<running, check_interval_seconds, k_pc, wait_time, k_sleep, k_stopped_for,
                k_cycles, k_cycles_at_stop, k_raised, k_on_error>>

VARIABLES
    t_now,       \* posts table: wall clock, TicksPerDay ticks to a day
    t_feed,      \* posts table: the community tab, oldest post first
    t_db,        \* posts table: the community_posts table, a set of rows
    t_pc,        \* posts table: where the check cycle is: "wait", "store" or "handle"
    t_raw,       \* posts table: posts_data still to parse and store
    t_new,       \* posts table: new_posts of the cycle in progress
    t_cycle,     \* posts table: what the last finished cycle did
    t_log        \* posts table: per post of the tab, what has happened to it

table_vars == <<t_now, t_feed, t_db, t_pc, t_raw, t_new, t_cycle, t_log>>

VARIABLES
    f_pc,             \* simple message: "call" before format_simple_message, "returned" after
    f_template_type,  \* simple message: its template_type argument
    f_data,           \* simple message: its data argument
    f_role_mentions,  \* simple message: its role_mentions argument
    f_message         \* simple message: the string it returned

fmt_vars == <<f_pc, f_template_type, f_data, f_role_mentions, f_message>>

VARIABLES
    d_settings,   \* enabled flags: the webhook URLs of the settings, per content type
    d_servers,    \* enabled flags: DiscordConfiguration.servers
    d_disabled,   \* enabled flags: the URLs given to disable_server and not to enable_server since
    d_last        \* enabled flags: the last delivery, with the URLs it was sent to

able_vars == <<d_settings, d_servers, d_disabled, d_last>>

VARIABLES
    x_running,    \* loop threads: self.running
    x_thread,     \* loop threads: self.scheduler_thread, 0 before the first start()
    x_pc,         \* loop threads: where each thread is in _run_scheduler
    x_wait_time,  \* loop threads: wait_time of each thread's _wait_for_next_check
    x_left,       \* loop threads: seconds left of each thread's time.sleep
    x_caller,     \* loop threads: "idle", or "joining" inside stop()
    x_join,       \* loop threads: seconds left of join(timeout=5)
    x_call,       \* loop threads: what the last start() or stop() did
    x_asked,      \* loop threads: the threads that were running when stop() cleared the flag
    x_resumed     \* loop threads: those of them that passed `while self.running` again

thread_vars == <<x_running, x_thread, x_pc, x_wait_time, x_left, x_caller, x_join, x_call,
                 x_asked, x_resumed>>

\* the later parts
more_vars == <<table_vars, fmt_vars, able_vars, thread_vars>>

\* the variables outside them
side_vars == <<handle_vars, rt_vars, web_vars, sig_vars, rate_vars, sched_vars, more_vars>>

\* what the actions on one part leave alone
outside_handle == <<core_vars, rt_vars, web_vars, sig_vars, rate_vars, sched_vars, more_vars>>

outside_rt == <<core_vars, handle_vars, web_vars, sig_vars, rate_vars, sched_vars, more_vars>>

outside_sig == <<core_vars, handle_vars, rt_vars, web_vars, rate_vars, sched_vars, more_vars>>

outside_rate == <<core_vars, handle_vars, rt_vars, web_vars, sig_vars, sched_vars, more_vars>>

outside_sched == <<core_vars, handle_vars, rt_vars, web_vars, sig_vars, rate_vars, more_vars>>

\* the earlier parts
early_vars == <<core_vars, handle_vars, rt_vars, web_vars, sig_vars, rate_vars, sched_vars>>

outside_table == <<early_vars, fmt_vars, able_vars, thread_vars>>

outside_fmt == <<early_vars, table_vars, able_vars, thread_vars>>

outside_able == <<early_vars, table_vars, fmt_vars, thread_vars>>

outside_thread == <<early_vars, table_vars, fmt_vars, able_vars>>

vars == <<core_vars, side_vars>>

\* ------------------------------------------------------------------------
\* YouTubeNotification._fallback_title_detection
\* ------------------------------------------------------------------------

has_indicator(title, indicators) == \E ind \in indicators : contains(lower(title), ind)

\* a fallback that takes a keyword in the title for a stream that is on air
fallback_keyword_is_live(data) ==
    IF has_indicator(data.title, fallback_live_indicators)
    THEN LIVESTREAM_LIVE
    ELSE UPLOAD

\* a fallback that takes every video without a hint for a finished stream
fallback_assuming_stream(data) == LIVESTREAM_COMPLETED

fallback_by_title(data) ==
    IF has_indicator(data.title, fallback_live_indicators)
    THEN LIVESTREAM_COMPLETED
    ELSE UPLOAD

\* a fallback that reads the title before the hint
fallback_title_before_hint(data) ==
    IF has_indicator(data.title, fallback_live_indicators) THEN LIVESTREAM_COMPLETED
    ELSE IF data.live_broadcast_content = "live" THEN LIVESTREAM_LIVE
    ELSE IF data.live_broadcast_content = "upcoming" THEN LIVESTREAM
    ELSE UPLOAD

fallback_title_detection(data) ==
    LET live_broadcast_content == lower_hint(data.live_broadcast_content)
    IN  IF data.live_broadcast_content # "" /\ live_broadcast_content = "live"
        THEN LIVESTREAM_LIVE
        ELSE IF data.live_broadcast_content # "" /\ live_broadcast_content = "upcoming"
        THEN LIVESTREAM
        ELSE IF data.live_broadcast_content # "" /\ live_broadcast_content = "completed"
        THEN LIVESTREAM_COMPLETED
        ELSE fallback_by_title(data)

\* ------------------------------------------------------------------------
\* YouTubeNotification._determine_notification_type
\* ------------------------------------------------------------------------

\* data['scheduled_start_time'] / data['actual_start_time'] written from the item
enrich_data(data, item) ==
    [ data EXCEPT
        !.scheduled_start_time = IF item.scheduledStartTime THEN TRUE ELSE @,
        !.actual_start_time = IF item.actualStartTime THEN TRUE ELSE @ ]

\* a classifier that reads the broadcast flag before the end time
classify_item_flag_first(data, item) ==
    IF item.liveBroadcastContent = "live" THEN LIVESTREAM_LIVE
    ELSE IF item.liveBroadcastContent = "upcoming" THEN LIVESTREAM
    ELSE IF item.liveStreamingDetails /\ item.actualEndTime THEN LIVESTREAM_COMPLETED
    ELSE UPLOAD

\* the rules of the branch `if response.status_code == 200` with a non-empty
\* items list, in the order of the code
classify_rules(data, item) ==
    LET live_broadcast_content ==
            IF item.liveBroadcastContent = "" THEN "none" ELSE item.liveBroadcastContent
        scheduled_start_time == item.liveStreamingDetails /\ item.scheduledStartTime
        actual_start_time == item.liveStreamingDetails /\ item.actualStartTime
        actual_end_time == item.liveStreamingDetails /\ item.actualEndTime
        life_cycle_status == item.lifeCycleStatus
        upload_status == item.uploadStatus
        enriched == enrich_data(data, item)
    IN  IF actual_end_time THEN LIVESTREAM_COMPLETED
        ELSE IF life_cycle_status \in {"complete", "completed"} THEN LIVESTREAM_COMPLETED
        ELSE IF upload_status = "processed" /\ actual_start_time THEN LIVESTREAM_COMPLETED
        ELSE IF actual_start_time /\ live_broadcast_content \in {"none", "completed"}
        THEN LIVESTREAM_COMPLETED
        ELSE IF actual_start_time /\ ~actual_end_time THEN LIVESTREAM_LIVE
        ELSE IF live_broadcast_content = "upcoming" \/ (scheduled_start_time /\ ~actual_start_time)
        THEN LIVESTREAM
        ELSE IF live_broadcast_content = "live" THEN LIVESTREAM_LIVE
        ELSE IF scheduled_start_time /\ ~enriched.actual_start_time THEN LIVESTREAM
        ELSE IF has_indicator(data.title, api_live_indicators) THEN LIVESTREAM_COMPLETED
        ELSE UPLOAD

\* what the rules read of the item
started(item) == item.liveStreamingDetails /\ item.actualStartTime

ended(item) == item.liveStreamingDetails /\ item.actualEndTime

scheduled(item) == item.liveStreamingDetails /\ item.scheduledStartTime

\* one of the rules that return LIVESTREAM_COMPLETED for an ended or processed stream
completed_rule(item) == ended(item) \/ (item.uploadStatus = "processed" /\ started(item))

\* a classifier that reads the "upcoming" flag before the actual start time
classify_item_upcoming_first(data, item) ==
    IF ~completed_rule(item) /\ item.liveBroadcastContent = "upcoming" THEN LIVESTREAM
    ELSE classify_rules(data, item)

\* a classifier without the rule for a started stream whose flag is none or completed
classify_item_live_when_started(data, item) ==
    IF ~completed_rule(item) /\ started(item) THEN LIVESTREAM_LIVE
    ELSE classify_rules(data, item)

\* a classifier whose last rule reads the liveStreamingDetails block, not the title
classify_item_by_block(data, item) ==
    IF /\ ~completed_rule(item) /\ ~started(item) /\ ~scheduled(item)
       /\ item.liveBroadcastContent \notin {"upcoming", "live"}
    THEN IF item.liveStreamingDetails THEN LIVESTREAM_COMPLETED ELSE UPLOAD
    ELSE classify_rules(data, item)

\* the branch `if response.status_code == 200` with a non-empty items list
classify_item(data, item) == classify_rules(data, item)

\* a lookup is made only with an API key and a video id
lookup_made(api_key, data) == api_key /\ data.video_id

\* a classifier that returns UPLOAD when the items list is empty
determine_type_upload_without_item(api_key, data, resp) ==
    IF ~api_key THEN fallback_title_detection(data)
    ELSE IF ~data.video_id THEN UPLOAD
    ELSE IF resp.outcome = "item" THEN classify_item(data, resp.item)
    ELSE IF resp.outcome = "no_items" THEN UPLOAD
    ELSE fallback_title_detection(data)

\* a classifier that returns UPLOAD when the lookup fails
determine_type_upload_on_failure(api_key, data, resp) ==
    IF ~api_key THEN fallback_title_detection(data)
    ELSE IF ~data.video_id THEN UPLOAD
    ELSE IF resp.outcome = "item" THEN classify_item(data, resp.item)
    ELSE IF resp.outcome = "no_items" THEN fallback_title_detection(data)
    ELSE UPLOAD

determine_notification_type(api_key, data, resp) ==
    IF ~api_key THEN fallback_title_detection(data)
    ELSE IF ~data.video_id THEN UPLOAD
    ELSE IF resp.outcome = "item" THEN classify_item(data, resp.item)
    ELSE fallback_title_detection(data)

\* the dict after _determine_notification_type returned
data_after_lookup(api_key, data, resp) ==
    IF lookup_made(api_key, data) /\ resp.outcome = "item"
    THEN enrich_data(data, resp.item)
    ELSE data

\* ------------------------------------------------------------------------
\* Settings and DiscordConfiguration (app/config/settings.py,
\* app/models/discord_config.py)
\* ------------------------------------------------------------------------

\* most webhook URLs configured for one content type
MaxServers == 2

ContentTypes == {"upload", "livestream", "community"}

\* the i-th webhook URL configured for a content type
webhook(content_type, i) == [content_type |-> content_type, index |-> i]

\* _validate_required_settings: at least one webhook URL over all content types
SettingsValues ==
    { st \in [ContentTypes -> 0..MaxServers] :
        st["upload"] + st["livestream"] + st["community"] > 0 }

\* Settings.get_webhooks_for_type
get_webhooks_for_type(st, content_type) ==
    LET key == IF content_type = "livestream_live" THEN "livestream" ELSE content_type
    IN  IF key \in ContentTypes
        THEN [i \in 1..st[key] |-> webhook(key, i)]
        ELSE <<>>

servers_of(st, content_type) ==
    [ i \in 1..st[content_type] |->
        [webhook_url |-> webhook(content_type, i), content_type |-> content_type, enabled |-> TRUE] ]

\* DiscordConfiguration.from_settings
from_settings(st) ==
    servers_of(st, "upload") \o servers_of(st, "livestream") \o servers_of(st, "community")

\* DiscordConfiguration.get_servers_for_type
get_servers_for_type(config, content_type) ==
    LET wanted == IF content_type = "livestream_live" THEN "livestream" ELSE content_type
    IN  SelectSeq(config, LAMBDA server : server.enabled /\ server.content_type = wanted)

\* ------------------------------------------------------------------------
\* YouTubeNotification.is_recent
\* ------------------------------------------------------------------------

\* main.py calls is_recent(hours=24)
RecentHours == 24

\* data['published']: absent, not ISO-8601, or a timestamp `age` hours in the past
PublishedValues ==
    [kind : {"absent", "unparseable"}, age : {0}]
        \cup [kind : {"timestamp"}, age : {RecentHours, RecentHours + 1}]

is_recent(published, hours) ==
    IF published.kind # "timestamp" THEN TRUE
    ELSE published.age * 3600 <= hours * 3600

\* ------------------------------------------------------------------------
\* DiscordClient.send_webhook_message, one requests.post per step
\* ------------------------------------------------------------------------

\* response.status_code of the webhook endpoint, or a RequestException
Statuses == {"204", "200", "429", "500", "exception"}

NoWebhook == [content_type |-> "", index |-> 0]

NoSend == [webhook_url |-> NoWebhook, calls |-> 0, status |-> "none", result |-> "none"]

\* a send that also calls itself again after a status 500
on_response_retrying_failure(status) ==
    CASE status = "204" -> "true"
      [] status \in {"429", "500"} -> "retry"
      [] OTHER -> "false"

\* what one response makes send_webhook_message do: return True, return False,
\* or sleep retry_after and call itself again
on_response(status) ==
    CASE status = "204" -> "true"
      [] status = "429" -> "retry"
      [] OTHER -> "false"

\* the send record after one more requests.post to webhook_url answered `status`
after_post(send, webhook_url, status) ==
    LET calls == IF send.result = "retry" THEN send.calls + 1 ELSE 1
    IN  [webhook_url |-> webhook_url, calls |-> calls, status |-> status,
         result |-> on_response(status)]

\* a 429 is answered to at most MaxThrottle consecutive posts of one send
may_answer(send, status) ==
    status = "429" => (send.result # "retry" \/ send.calls < MaxThrottle)

\* titles and hints of the events of the request path
NotifyTitles == {<<"vlog">>, <<"LIVE">>, <<"q", "a">>}

NotifyHints == {"", "live", "completed"}

\* parse_notification returns a dict only with a video id
NotifyEvents ==
    { d \in ParsedEvents :
        d.video_id /\ d.title \in NotifyTitles /\ d.live_broadcast_content \in NotifyHints }

\* API answers of the request path
NotifyApiResponses ==
    { r \in ApiResponses :
        /\ r.outcome \in {"network_error", "no_items", "item"}
        /\ r.item.uploadStatus = ""
        /\ r.item.liveBroadcastContent \in {"", "live", "upcoming"} }

\* the request path has no use of the community webhooks
NotifySettings == { st \in SettingsValues : st["community"] = 0 }

\* ------------------------------------------------------------------------
\* process_youtube_notification (main.py)
\* ------------------------------------------------------------------------

\* a handler that reports success whatever the sends returned
overall_success_whatever(count) == count >= 0

\* overall_success = success_count > 0
overall_success(count) == count > 0

\* a handler that sends to every enabled server when the type has none
servers_or_every_server(config, notification_type, published) ==
    IF notification_type = LIVESTREAM_COMPLETED THEN <<>>
    ELSE IF ~is_recent(published, RecentHours) THEN <<>>
    ELSE IF get_servers_for_type(config, notification_type) = <<>>
    THEN SelectSeq(config, LAMBDA server : server.enabled)
    ELSE get_servers_for_type(config, notification_type)

\* a handler without the completed-livestream return, whose completed events go
\* to the livestream servers
servers_without_skip(config, notification_type, published) ==
    IF ~is_recent(published, RecentHours) THEN <<>>
    ELSE get_servers_for_type(
            config, IF notification_type = LIVESTREAM_COMPLETED THEN LIVESTREAM ELSE notification_type)

\* a handler without the is_recent return
servers_of_any_age(config, notification_type, published) ==
    IF notification_type = LIVESTREAM_COMPLETED THEN <<>>
    ELSE get_servers_for_type(config, notification_type)

\* the servers the for loop sends to: none for a completed livestream, for an
\* old event, or when no server is configured for the type
notification_servers(config, notification_type, published) ==
    IF notification_type = LIVESTREAM_COMPLETED THEN <<>>
    ELSE IF ~is_recent(published, RecentHours) THEN <<>>
    ELSE get_servers_for_type(config, notification_type)

\* from_websub_data, the early returns, and the entry of the for loop
process_youtube_notification ==
    /\ n_pc = "received"
    /\ \E resp \in (IF lookup_made(c_key, c_data) THEN NotifyApiResponses ELSE {NotCalled}) :
        LET notification_type == determine_notification_type(c_key, c_data, resp)
            content_type_servers == notification_servers(discord_config, notification_type, n_published)
        IN  /\ c_api' = resp
            /\ c_type' = notification_type
            /\ c_data' = data_after_lookup(c_key, c_data, resp)
            /\ c_pc' = "classified"
            /\ n_todo' = content_type_servers
            /\ IF content_type_servers = <<>>
               THEN n_pc' = "done" /\ n_result' = "true"
               ELSE n_pc' = "sending" /\ n_result' = "none"
    /\ success_count' = 0
    /\ n_sends' = 0
    /\ n_send' = NoSend
    /\ UNCHANGED <<c_key, n_published, config_vars, poll_vars, side_vars>>

\* one requests.post of the send to the server at the head of the loop; the
\* response ends the send (and, after the last server, the handler) unless it is a 429
send_to_server ==
    /\ n_pc = "sending"
    /\ \E status \in Statuses :
        /\ may_answer(n_send, status)
        /\ LET send == after_post(n_send, Head(n_todo).webhook_url, status)
               count == IF send.result = "true" THEN success_count + 1 ELSE success_count
           IN  /\ n_send' = send
               /\ n_sends' = IF n_send.result = "retry" THEN n_sends ELSE n_sends + 1
               /\ success_count' = count
               /\ IF send.result = "retry"
                  THEN UNCHANGED <<n_todo, n_pc, n_result>>
                  ELSE /\ n_todo' = Tail(n_todo)
                       /\ IF Tail(n_todo) = <<>>
                          THEN n_pc' = "done" /\ n_result' = IF overall_success(count) THEN "true" ELSE "false"
                          ELSE UNCHANGED <<n_pc, n_result>>
    /\ UNCHANGED <<classify_vars, n_published, config_vars, poll_vars, side_vars>>

\* ------------------------------------------------------------------------
\* The community tab, the scraper and the community_posts table
\* (app/utils/community_scraper.py)
\* ------------------------------------------------------------------------

\* most posts the channel publishes
MaxPosts == 2

\* last instant of the clock
MaxClock == 1

\* scrape_channel_posts(channel_id, limit=20)
ScrapeLimit == 20

\* the scheduler thread of CommunityPostScheduler.start and a waitress request thread
Threads == {"scheduler", "request"}

PostIds == 1..MaxPosts

NoPost == [post_id |-> 0, published_time |-> 0]

\* the posts_data yp-dl --reverse writes: newest first, each with its permalink
\* and the time since it was published
yp_dl(posts, clock) ==
    [ i \in 1..Len(posts) |->
        [post_link |-> Len(posts) + 1 - i, time_since |-> clock - posts[Len(posts) + 1 - i]] ]

\* posts_data[:limit]
take(posts_data, limit) ==
    IF Len(posts_data) <= limit THEN posts_data ELSE SubSeq(posts_data, 1, limit)

\* CommunityPostScraper._parse_time_since: now minus the parsed duration
parse_time_since(time_since, clock) == clock - time_since

\* CommunityPostScraper._parse_yp_dl_post_data
parse_yp_dl_post_data(post_data, clock) ==
    [post_id |-> post_data.post_link, published_time |-> parse_time_since(post_data.time_since, clock)]

rows_of(database, post_id) == {row \in database : row.post_id = post_id}

\* an INSERT OR REPLACE in place of the INSERT
replace_post(database, post) ==
    [ db |-> (database \ rows_of(database, post.post_id)) \cup
                {[post_id |-> post.post_id, published_time |-> post.published_time, notified |-> FALSE]},
      inserted |-> TRUE ]

\* CommunityPostDatabase.store_post: the insert fails on the primary key
store_post(database, post) ==
    IF rows_of(database, post.post_id) # {}
    THEN [db |-> database, inserted |-> FALSE]
    ELSE [ db |-> database \cup
                    {[post_id |-> post.post_id, published_time |-> post.published_time, notified |-> FALSE]},
           inserted |-> TRUE ]

\* CommunityPostDatabase.mark_notified
mark_notified(database, post_id) ==
    { IF row.post_id = post_id THEN [row EXCEPT !.notified = TRUE] ELSE row : row \in database }

RECURSIVE mark_all_notified(_, _)
mark_all_notified(database, posts) ==
    IF posts = <<>> THEN database
    ELSE mark_all_notified(mark_notified(database, Head(posts).post_id), Tail(posts))

\* CommunityPostDatabase.get_unnotified_posts
get_unnotified_posts(database) == {row \in database : ~row.notified}

\* the notified column of the row of post_id
notified(database, post_id) == \E row \in rows_of(database, post_id) : row.notified

\* ------------------------------------------------------------------------
\* CommunityPostNotificationHandler.handle_new_posts (app/utils/scheduler.py)
\* ------------------------------------------------------------------------

\* sorted(posts, key=published_time, reverse=True): stable, newest first
RECURSIVE insert_sorted(_, _)
insert_sorted(sorted, post) ==
    IF sorted = <<>> THEN <<post>>
    ELSE IF Head(sorted).published_time >= post.published_time
         THEN <<Head(sorted)>> \o insert_sorted(Tail(sorted), post)
         ELSE <<post>> \o sorted

RECURSIVE sort_newest_first(_)
sort_newest_first(posts) ==
    IF posts = <<>> THEN <<>>
    ELSE insert_sorted(sort_newest_first(SubSeq(posts, 1, Len(posts) - 1)), posts[Len(posts)])

\* latest_post = sorted_posts[0]
latest_of(sorted_posts) == sorted_posts[1]

\* a slice that leaves out the second post as well
posts_after_second(sorted_posts) ==
    IF Len(sorted_posts) <= 1 THEN <<>> ELSE Tail(Tail(sorted_posts))

\* sorted_posts[1:], marked notified without a notification
older_posts(sorted_posts) == Tail(sorted_posts)

\* a handler that marks the latest post whatever the sends returned
marks_always(successes) == TRUE

\* `if successful_notifications > 0` before mark_post_notified(latest_post)
marks_latest(successes) == successes > 0

\* the answers of the endpoint to one send: 429s, then an answer that ends it
RECURSIVE throttled(_)
throttled(n) == IF n = 0 THEN <<>> ELSE <<"429">> \o throttled(n - 1)

ResponseSequences ==
    { throttled(n) \o <<status>> : n \in 0..MaxThrottle, status \in Statuses \ {"429"} }

\* DiscordClient.send_webhook_message run to its return on a sequence of answers
RECURSIVE send_webhook_message(_)
send_webhook_message(responses) ==
    LET outcome == on_response(Head(responses))
    IN  IF outcome = "retry" THEN send_webhook_message(Tail(responses)) ELSE outcome = "true"

\* what send_youtube_notification can return to handle_new_posts
SendResults == { send_webhook_message(responses) : responses \in ResponseSequences }

\* successful_notifications after the loop over webhook_urls
count_successes(results) == Cardinality({i \in DOMAIN results : results[i]})

\* stored: store_post calls that returned True (counted up to 2); first_published: the
\* published_time of the first of them; rejected: a store_post call with another
\* published_time returned False; superseded: marked as an older post by handle_new_posts;
\* sent: send_youtube_notification was called for it; delivered: a send of it returned
\* True; undelivered: a send of it returned False
NoHistory ==
    [ stored |-> 0, first_published |-> 0, rejected |-> FALSE, superseded |-> FALSE,
      sent |-> FALSE, delivered |-> FALSE, undelivered |-> FALSE ]

ids_of(posts) == {posts[i].post_id : i \in 1..Len(posts)}

\* where a thread is when no check is in progress
rest(t) == IF t = "scheduler" THEN "wait" ELSE "idle"

\* ------------------------------------------------------------------------
\* SpecPoll: actions
\* ------------------------------------------------------------------------

\* time passes
tick ==
    /\ now < MaxClock
    /\ now' = now + 1
    /\ UNCHANGED <<feed, db, pc, raw, new_posts, latest_post, history, retry_due>>
    /\ UNCHANGED <<classify_vars, config_vars, notify_vars, side_vars>>

\* the channel publishes a community post
publish ==
    /\ Len(feed) < MaxPosts
    /\ feed' = Append(feed, now)
    /\ UNCHANGED <<now, db, pc, raw, new_posts, latest_post, history, retry_due>>
    /\ UNCHANGED <<classify_vars, config_vars, notify_vars, side_vars>>

\* the posts whose sends all failed and whose row still has notified = False
failed_unnotified(database, hist) ==
    { p \in PostIds :
        /\ hist[p].sent
        /\ ~hist[p].delivered
        /\ \E row \in rows_of(database, p) : ~row.notified }

\* a check begins
begin_check(t) ==
    /\ pc' = [pc EXCEPT ![t] = "scrape"]
    /\ retry_due' = [retry_due EXCEPT ![t] = failed_unnotified(db, history)]
    /\ UNCHANGED <<now, feed, db, raw, new_posts, latest_post, history>>
    /\ UNCHANGED <<classify_vars, config_vars, notify_vars, side_vars>>

\* CommunityPostScheduler._run_scheduler: the interval has elapsed (or the loop
\* has just started) and the loop calls _check_community_posts
run_scheduler ==
    /\ pc["scheduler"] = "wait"
    /\ begin_check("scheduler")

\* POST /community/check: force_community_check calls force_check
force_check ==
    /\ pc["request"] = "idle"
    /\ begin_check("request")

\* handle_new_posts up to the first send: the early returns, the sort, and the
\* marking of the older posts
enter_handler(t, posts, database, hist) ==
    LET urls == get_webhooks_for_type(settings, "community")
        sorted_posts == sort_newest_first(posts)
        older == older_posts(sorted_posts)
    IN  IF posts = <<>> \/ urls = <<>>
        THEN /\ pc' = [pc EXCEPT ![t] = rest(t)]
             /\ new_posts' = [new_posts EXCEPT ![t] = <<>>]
             /\ retry_due' = [retry_due EXCEPT ![t] = {}]
             /\ db' = database
             /\ history' = hist
             /\ UNCHANGED latest_post
        ELSE /\ pc' = [pc EXCEPT ![t] = "send"]
             /\ new_posts' = [new_posts EXCEPT ![t] = posts]
             /\ latest_post' = [latest_post EXCEPT ![t] = latest_of(sorted_posts)]
             /\ db' = mark_all_notified(database, older)
             /\ history' = [ p \in PostIds |->
                                IF p \in ids_of(older) THEN [hist[p] EXCEPT !.superseded = TRUE] ELSE hist[p] ]
             /\ UNCHANGED retry_due

\* scrape_channel_posts: yp-dl runs; it may fail or write nothing
scrape_channel_posts(t) ==
    /\ pc[t] = "scrape"
    /\ \E posts_data \in {<<>>, take(yp_dl(feed, now), ScrapeLimit)} :
        IF posts_data = <<>>
        THEN /\ pc' = [pc EXCEPT ![t] = rest(t)]
             /\ retry_due' = [retry_due EXCEPT ![t] = {}]
             /\ UNCHANGED raw
        ELSE /\ pc' = [pc EXCEPT ![t] = "store"]
             /\ raw' = [raw EXCEPT ![t] = posts_data]
             /\ UNCHANGED retry_due
    /\ UNCHANGED <<now, feed, db, new_posts, latest_post, history>>
    /\ UNCHANGED <<classify_vars, config_vars, notify_vars, side_vars>>

\* one turn of the loop over posts_data: parse the post, store it, keep it if it
\* is new; after the last post the check returns and on_posts_found runs
store_scraped_post(t) ==
    /\ pc[t] = "store"
    /\ LET post == parse_yp_dl_post_data(Head(raw[t]), now)
           stored == store_post(db, post)
           found == IF stored.inserted THEN Append(new_posts[t], post) ELSE new_posts[t]
           hist == IF stored.inserted
                   THEN [ history EXCEPT
                            ![post.post_id].stored = IF @ < 2 THEN @ + 1 ELSE @,
                            ![post.post_id].first_published =
                                IF history[post.post_id].stored = 0 THEN post.published_time ELSE @ ]
                   ELSE [ history EXCEPT
                            ![post.post_id].rejected =
                                @ \/ \E row \in rows_of(db, post.post_id) :
                                        row.published_time # post.published_time ]
       IN  /\ raw' = [raw EXCEPT ![t] = Tail(raw[t])]
           /\ IF Tail(raw[t]) # <<>>
              THEN /\ new_posts' = [new_posts EXCEPT ![t] = found]
                   /\ db' = stored.db
                   /\ history' = hist
                   /\ UNCHANGED <<pc, latest_post, retry_due>>
              ELSE enter_handler(t, found, stored.db, hist)
    /\ UNCHANGED <<now, feed>>
    /\ UNCHANGED <<classify_vars, config_vars, notify_vars, side_vars>>

\* the loop of handle_new_posts over webhook_urls: send_youtube_notification for
\* latest_post to every URL, then the post is marked if a send succeeded, and
\* the check returns
send_community_post(t) ==
    /\ pc[t] = "send"
    /\ LET webhook_urls == get_webhooks_for_type(settings, "community")
           post_id == latest_post[t].post_id
       IN  \E results \in [1..Len(webhook_urls) -> SendResults] :
            LET successful_notifications == count_successes(results)
            IN  /\ history' = [ history EXCEPT
                                  ![post_id].sent = TRUE,
                                  ![post_id].delivered = @ \/ \E i \in DOMAIN results : results[i],
                                  ![post_id].undelivered = @ \/ \E i \in DOMAIN results : ~results[i] ]
                /\ db' = IF marks_latest(successful_notifications)
                         THEN mark_notified(db, post_id) ELSE db
    /\ pc' = [pc EXCEPT ![t] = rest(t)]
    /\ new_posts' = [new_posts EXCEPT ![t] = <<>>]
    /\ latest_post' = [latest_post EXCEPT ![t] = NoPost]
    /\ retry_due' = [retry_due EXCEPT ![t] = {}]
    /\ UNCHANGED <<now, feed, raw>>
    /\ UNCHANGED <<classify_vars, config_vars, notify_vars, side_vars>>

\* ------------------------------------------------------------------------
\* The channel handle cache (CommunityPostDatabase.get_cached_handle,
\* cache_handle; CommunityPostScraper._resolve_channel_handle)
\* ------------------------------------------------------------------------

\* `(now - last_verified_dt).days < 30`
StaleDays == 30

\* clock units in one day
UnitsPerDay == 2

\* last day of the clock
MaxDays == 31

\* None, for a handle
NoHandle == ""

NoEntry == [handle |-> NoHandle, instant |-> 0, suffix |-> <<>>]

\* datetime.now(timezone.utc).isoformat(): the instant, with the UTC offset
isoformat(instant) == [instant |-> instant, suffix |-> <<"+00:00">>]

\* str.endswith on the part of a timestamp after its seconds
endswith(suffix, ending) ==
    /\ Len(suffix) >= Len(ending)
    /\ SubSeq(suffix, Len(suffix) - Len(ending) + 1, Len(suffix)) = ending

\* last_verified[:-1] and last_verified[:-6]: the last piece cut off
without_last(suffix) == SubSeq(suffix, 1, Len(suffix) - 1)

\* candidate_values of get_cached_handle
candidate_values(last_verified) ==
    <<last_verified>>
        \o (IF endswith(last_verified.suffix, <<"Z">>)
            THEN <<[last_verified EXCEPT !.suffix = without_last(@) \o <<"+00:00">>]>> ELSE <<>>)
        \o (IF endswith(last_verified.suffix, <<"+00:00", "Z">>)
            THEN <<[last_verified EXCEPT !.suffix = without_last(@)]>> ELSE <<>>)
        \o (IF endswith(last_verified.suffix, <<"+00:00", "+00:00">>)
            THEN <<[last_verified EXCEPT !.suffix = without_last(@)]>> ELSE <<>>)

\* datetime.fromisoformat accepts the timestamp (a trailing Z is taken as not
\* accepted; where it is, the first candidate gives the instant the second gives here)
fromisoformat_accepts(timestamp) == timestamp.suffix = <<"+00:00">>

\* the loop over candidate_values: the candidates that parse
parsed_candidates(last_verified) ==
    SelectSeq(candidate_values(last_verified), fromisoformat_accepts)

\* timedelta.days
days(delta) == delta \div UnitsPerDay

\* a cache that still answers on the thirtieth day
get_cached_handle_through_window(entry, clock) ==
    IF entry = NoEntry THEN NoHandle
    ELSE IF parsed_candidates(entry) = <<>> THEN NoHandle
    ELSE IF days(clock - Head(parsed_candidates(entry)).instant) <= StaleDays THEN entry.handle
    ELSE NoHandle

\* CommunityPostDatabase.get_cached_handle
get_cached_handle(entry, clock) ==
    IF entry = NoEntry THEN NoHandle
    ELSE IF parsed_candidates(entry) = <<>> THEN NoHandle
    ELSE IF days(clock - Head(parsed_candidates(entry)).instant) < StaleDays THEN entry.handle
    ELSE NoHandle

\* CommunityPostDatabase.cache_handle: insert, or update on the primary key
cache_handle(handle, clock) ==
    [handle |-> handle, instant |-> isoformat(clock).instant, suffix |-> isoformat(clock).suffix]

NoCall ==
    [ made |-> FALSE, entry |-> NoEntry, at |-> 0, resolved |-> FALSE, result |-> NoHandle,
      consulted |-> <<>>, channel_url |-> <<>> ]

\* what _resolve_handle_via_api and _resolve_handle_via_html can return as the handle
ApiHandles == {NoHandle, "@new"}

HtmlHandles == {NoHandle, "@page"}

\* a resolution that reads the page before it asks the API
handle_sources_page_first(cached_handle, api_handle, html_handle) ==
    IF cached_handle # NoHandle THEN [handle |-> cached_handle, consulted |-> <<>>]
    ELSE IF html_handle # NoHandle THEN [handle |-> html_handle, consulted |-> <<"html">>]
    ELSE [handle |-> api_handle, consulted |-> <<"html", "api">>]

\* _resolve_channel_handle: the sources it consults after the cache, in order,
\* and the handle it returns
handle_sources(cached_handle, api_handle, html_handle) ==
    IF cached_handle # NoHandle THEN [handle |-> cached_handle, consulted |-> <<>>]
    ELSE IF api_handle # NoHandle THEN [handle |-> api_handle, consulted |-> <<"api">>]
    ELSE [handle |-> html_handle, consulted |-> <<"api", "html">>]

\* scrape_channel_posts: the URL given to yp-dl
channel_url_of(channel_handle) ==
    IF channel_handle # NoHandle
    THEN <<"https://www.youtube.com/", channel_handle>>
    ELSE <<"https://www.youtube.com/channel/", "channel_id">>

\* rows of channel_handles at start: none, or one written before the clock started
\* in one of the forms get_cached_handle reads, or in one it cannot read
StoredEntries ==
    {NoEntry} \cup
        [handle : {"@old"}, instant : {0}, suffix : {<<"+00:00">>, <<"Z">>, <<"+00:00", "Z">>, <<"?">>}]

\* time passes
advance ==
    /\ h_clock < MaxDays * UnitsPerDay
    /\ h_clock' = h_clock + 1
    /\ h_call' = NoCall
    /\ UNCHANGED <<channel_handles, outside_handle>>

\* scrape_channel_posts up to the yp-dl command: _resolve_channel_handle reads
\* the cache, then asks the API and the HTML page, each of which finds the
\* handle or does not; a handle that was found is cached
resolve_channel_handle ==
    /\ \E api_handle \in ApiHandles, html_handle \in HtmlHandles :
        LET cached_handle == get_cached_handle(channel_handles, h_clock)
            found == handle_sources(cached_handle, api_handle, html_handle)
        IN  /\ channel_handles' =
                    IF found.consulted # <<>> /\ found.handle # NoHandle
                    THEN cache_handle(found.handle, h_clock) ELSE channel_handles
            /\ h_call' = [ made |-> TRUE, entry |-> channel_handles, at |-> h_clock,
                           resolved |-> found.consulted # <<>>, result |-> found.handle,
                           consulted |-> found.consulted,
                           channel_url |-> channel_url_of(found.handle) ]
    /\ UNCHANGED <<h_clock, outside_handle>>

\* ------------------------------------------------------------------------
\* A CommunityPost through store_post and _row_to_post
\* ------------------------------------------------------------------------

\* Python values of the list and dict fields: None, or a list or a dict of `size` items
PyNone == [kind |-> "None", size |-> 0]

PyLists == [kind : {"list"}, size : 0..1]

PyDicts == [kind : {"dict"}, size : 0..1]

\* Python's truth value: None, an empty container, an empty string and 0 are false
truthy(value) == value.kind # "None" /\ value.size > 0

RECURSIVE items(_)
items(n) == IF n = 0 THEN <<>> ELSE <<"item">> \o items(n - 1)

\* json.dumps: the text of a value
json_dumps(value) ==
    CASE value.kind = "None" -> [kind |-> "text", size |-> 1, text |-> <<"null">>]
      [] value.kind = "list" ->
            [kind |-> "text", size |-> value.size + 2, text |-> <<"[">> \o items(value.size) \o <<"]">>]
      [] value.kind = "dict" ->
            [kind |-> "text", size |-> value.size + 2, text |-> <<"{">> \o items(value.size) \o <<"}">>]

\* json.loads: the value of a text
json_loads(column) ==
    CASE Head(column.text) = "null" -> PyNone
      [] Head(column.text) = "[" -> [kind |-> "list", size |-> Len(column.text) - 2]
      [] Head(column.text) = "{" -> [kind |-> "dict", size |-> Len(column.text) - 2]

\* a NULL column, read as None
SqlNull == [kind |-> "None", size |-> 0, text |-> <<>>]

\* like_count: None or a number
LikeCounts == {"None", "0", "10"}

\* the fields of CommunityPost that store_post converts, and one it copies
CommunityPosts ==
    [ image_urls : {PyNone} \cup PyLists,
      video_attachments : {PyNone} \cup PyLists,
      poll_data : {PyNone} \cup PyDicts,
      like_count : LikeCounts ]

NoRow == [image_urls |-> SqlNull, video_attachments |-> SqlNull, poll_data |-> SqlNull, like_count |-> "None"]

NoCommunityPost ==
    [image_urls |-> PyNone, video_attachments |-> PyNone, poll_data |-> PyNone, like_count |-> "None"]

\* the record that store_post inserts
record_of(post) ==
    [ image_urls |-> json_dumps(post.image_urls),
      video_attachments |-> json_dumps(post.video_attachments),
      poll_data |-> IF truthy(post.poll_data) THEN json_dumps(post.poll_data) ELSE SqlNull,
      like_count |-> post.like_count ]

\* CommunityPostDatabase._row_to_post
row_to_post(row) ==
    [ image_urls |-> IF truthy(row.image_urls) THEN json_loads(row.image_urls)
                     ELSE [kind |-> "list", size |-> 0],
      video_attachments |-> IF truthy(row.video_attachments) THEN json_loads(row.video_attachments)
                            ELSE [kind |-> "list", size |-> 0],
      poll_data |-> IF truthy(row.poll_data) THEN json_loads(row.poll_data) ELSE PyNone,
      like_count |-> row.like_count ]

\* store_post inserts the post
store_community_post ==
    /\ rt_pc = "post"
    /\ rt_row' = record_of(rt_post)
    /\ rt_pc' = "stored"
    /\ UNCHANGED <<rt_post, rt_back, outside_rt>>

\* get_unnotified_posts reads the row back
read_community_post ==
    /\ rt_pc = "stored"
    /\ rt_back' = row_to_post(rt_row)
    /\ rt_pc' = "read"
    /\ UNCHANGED <<rt_post, rt_row, outside_rt>>

\* ------------------------------------------------------------------------
\* WebSubHandler (app/webhooks/websub.py). A header value is a sequence of
\* tokens, split at its first "=" token; the request body is a string.
\* ------------------------------------------------------------------------

\* a header that headers.get does not find, or finds empty
NoHeader == <<>>

NoHeaders == [x_hub_signature_256 |-> NoHeader, x_hub_signature |-> NoHeader]

\* hmac.new(key, msg, digestmod).hexdigest(): a different ASCII text for
\* every key, message and digest
hexdigest(key, msg, digestmod) == <<digestmod \o ":" \o key \o ":" \o msg>>

\* tokens with a character outside ASCII
NonAscii == {"e_acute"}

isascii(text) == \A i \in 1..Len(text) : text[i] \notin NonAscii

\* hmac.compare_digest on str arguments raises TypeError unless both are ASCII
compare_digest(a, b) ==
    IF ~isascii(a) \/ ~isascii(b) THEN "TypeError"
    ELSE IF a = b THEN "true"
    ELSE "false"

\* signature_header.split('=', 1)
split_once(text) ==
    IF \A i \in 1..Len(text) : text[i] # "="
    THEN <<text>>
    ELSE LET first == CHOOSE i \in 1..Len(text) :
                        text[i] = "=" /\ \A j \in 1..(i - 1) : text[j] # "="
         IN  <<SubSeq(text, 1, first - 1), SubSeq(text, first + 1, Len(text))>>

\* "true", "false", or the exception that the call raises
verify_signature(headers, body, secret) ==
    IF secret = "" THEN "true"
    ELSE LET signature_header ==
                 IF headers.x_hub_signature_256 # NoHeader
                 THEN headers.x_hub_signature_256
                 ELSE headers.x_hub_signature
             parts == split_once(signature_header)
         IN  IF signature_header = NoHeader THEN "false"
             ELSE IF Len(parts) # 2 THEN "false"
             ELSE LET algo == lower(parts[1])
                      provided_signature == parts[2]
                      digestmod == IF algo = <<"sha256">> THEN "sha256" ELSE "sha1"
                  IN  IF algo \notin {<<"sha1">>, <<"sha256">>} THEN "false"
                      ELSE compare_digest(hexdigest(secret, body, digestmod),
                                          provided_signature)

\* args.get returns None for a parameter that the query string does not have
NoArg == "None"

\* a verify_challenge that accepts every hub.mode
verify_challenge_any_mode(args) ==
    IF \E v \in {args.hub_mode, args.hub_topic, args.hub_challenge} : v \in {NoArg, ""}
    THEN [raised |-> "ValueError", challenge |-> ""]
    ELSE [raised |-> "", challenge |-> args.hub_challenge]

\* the value that verify_challenge returns, or the exception it raises
verify_challenge(args) ==
    IF \E v \in {args.hub_mode, args.hub_topic, args.hub_challenge} : v \in {NoArg, ""}
    THEN [raised |-> "ValueError", challenge |-> ""]
    ELSE IF args.hub_mode \notin {"subscribe", "unsubscribe"}
    THEN [raised |-> "ValueError", challenge |-> ""]
    ELSE [raised |-> "", challenge |-> args.hub_challenge]

\* request bodies: no XML, a feed with a tombstone (with or without an entry
\* after it), a feed without entry, an entry without ids, and entries with ids
Bodies ==
    { "", "<feed", "<feed><at:deleted-entry/></feed>",
      "<feed><at:deleted-entry/><entry>ids,LIVE</entry></feed>",
      "<feed></feed>", "<feed><entry></entry></feed>",
      "<feed><entry>ids,vlog</entry></feed>",
      "<feed><entry>ids,LIVE</entry></feed>",
      "<feed><entry>ids,vlog, Live </entry></feed>" }

NoElement == [ids |-> FALSE, title |-> <<>>, liveBroadcastContent |-> ""]

\* ET.fromstring: the tree as far as parse_notification reads it
fromstring(xml_content) ==
    CASE xml_content \in {"", "<feed"} ->
            [error |-> "ParseError", deleted_entry |-> FALSE, entry |-> FALSE, elem |-> NoElement]
      [] xml_content = "<feed><at:deleted-entry/></feed>" ->
            [error |-> "", deleted_entry |-> TRUE, entry |-> FALSE, elem |-> NoElement]
      [] xml_content = "<feed><at:deleted-entry/><entry>ids,LIVE</entry></feed>" ->
            [error |-> "", deleted_entry |-> TRUE, entry |-> TRUE,
             elem |-> [ids |-> TRUE, title |-> <<"LIVE">>, liveBroadcastContent |-> ""]]
      [] xml_content = "<feed></feed>" ->
            [error |-> "", deleted_entry |-> FALSE, entry |-> FALSE, elem |-> NoElement]
      [] xml_content = "<feed><entry></entry></feed>" ->
            [error |-> "", deleted_entry |-> FALSE, entry |-> TRUE, elem |-> NoElement]
      [] xml_content = "<feed><entry>ids,vlog</entry></feed>" ->
            [error |-> "", deleted_entry |-> FALSE, entry |-> TRUE,
             elem |-> [ids |-> TRUE, title |-> <<"vlog">>, liveBroadcastContent |-> ""]]
      [] xml_content = "<feed><entry>ids,LIVE</entry></feed>" ->
            [error |-> "", deleted_entry |-> FALSE, entry |-> TRUE,
             elem |-> [ids |-> TRUE, title |-> <<"LIVE">>, liveBroadcastContent |-> ""]]
      [] xml_content = "<feed><entry>ids,vlog, Live </entry></feed>" ->
            [error |-> "", deleted_entry |-> FALSE, entry |-> TRUE,
             elem |-> [ids |-> TRUE, title |-> <<"vlog">>, liveBroadcastContent |-> " Live "]]

\* live_broadcast_elem.text.strip().lower()
strip_lower(text) == IF text = " Live " THEN "live" ELSE text

NoData ==
    [video_id |-> TRUE, title |-> <<>>, live_broadcast_content |-> "",
     scheduled_start_time |-> FALSE, actual_start_time |-> FALSE]

\* a parse_notification that reads the entry before the tombstone
parse_notification_entry_first(xml_content) ==
    LET root == fromstring(xml_content)
    IN  IF root.error # "" THEN [kind |-> "None", data |-> NoData]
        ELSE IF root.entry /\ root.elem.ids
        THEN [kind |-> "video",
              data |-> [video_id |-> TRUE,
                        title |-> root.elem.title,
                        live_broadcast_content |-> strip_lower(root.elem.liveBroadcastContent),
                        scheduled_start_time |-> FALSE,
                        actual_start_time |-> FALSE]]
        ELSE IF root.deleted_entry THEN [kind |-> "deleted", data |-> NoData]
        ELSE [kind |-> "None", data |-> NoData]

\* None, the dict with 'deleted': True, or the dict of a video
parse_notification(xml_content) ==
    LET root == fromstring(xml_content)
    IN  IF root.error # "" THEN [kind |-> "None", data |-> NoData]
        ELSE IF root.deleted_entry THEN [kind |-> "deleted", data |-> NoData]
        ELSE IF ~root.entry THEN [kind |-> "None", data |-> NoData]
        ELSE IF ~root.elem.ids THEN [kind |-> "None", data |-> NoData]
        ELSE [kind |-> "video",
              data |-> [video_id |-> TRUE,
                        title |-> root.elem.title,
                        live_broadcast_content |-> strip_lower(root.elem.liveBroadcastContent),
                        scheduled_start_time |-> FALSE,
                        actual_start_time |-> FALSE]]

\* ------------------------------------------------------------------------
\* The /webhook route (main.py)
\* ------------------------------------------------------------------------

\* last_verification_time and last_notification_time start as None
NoTime == "None"

\* an earlier request and this one, as datetime.now(timezone.utc) read them
Earlier == "2026-01-01T00:00:00+00:00"

Now == "2026-01-02T00:00:00+00:00"

NoRequest == [method |-> "none"]

NoResponse == [body |-> "", code |-> "none"]

\* the query strings of the hub's challenge requests
ChallengeArgs ==
    [ hub_mode : {NoArg, "", "subscribe", "unsubscribe", "publish"},
      hub_topic : {NoArg, "", "topic"},
      hub_challenge : {NoArg, "", "challenge"} ]

\* the signature headers of a POST with this body: none, the HMAC of the body
\* under the secret or under another key, and a digest that is not ASCII
PostHeaders(body) ==
    [ x_hub_signature_256 :
        { NoHeader,
          <<"sha256", "=">> \o hexdigest("secret", body, "sha256"),
          <<"sha256", "=">> \o hexdigest("other", body, "sha256"),
          <<"sha256", "=", "e_acute">> },
      x_hub_signature :
        { NoHeader, <<"sha1", "=">> \o hexdigest("secret", body, "sha1") } ]

\* published timestamps of the entries: inside and outside the 24 hours
PostPublished == { p \in PublishedValues : p.kind = "timestamp" }

\* a view function that raises: Flask answers 500
InternalServerError == [body |-> "Internal Server Error", code |-> "500"]

\* GET: the challenge of the hub
webhook_get ==
    /\ w_pc = "idle"
    /\ \E args \in ChallengeArgs :
        LET challenge == verify_challenge(args)
        IN  /\ w_request' = [method |-> "GET", args |-> args]
            /\ w_calls' = {"verify_challenge"}
            /\ IF challenge.raised = "ValueError"
               THEN /\ w_response' = [body |-> "", code |-> "400"]
                    /\ UNCHANGED last_verification_time
               ELSE /\ w_response' = [body |-> challenge.challenge, code |-> "200"]
                    /\ last_verification_time' = w_now
    /\ w_pc' = "answered"
    /\ UNCHANGED <<callback_secret, last_notification_time, w_now>>
    /\ UNCHANGED <<core_vars, handle_vars, rt_vars, sig_vars, rate_vars, sched_vars, more_vars>>

\* POST, up to the return or to the call of process_youtube_notification
webhook_post ==
    /\ w_pc = "idle"
    /\ \E raw_body \in Bodies :
       \E headers \in PostHeaders(raw_body) :
       \E published \in PostPublished :
        LET checked == callback_secret # ""
            verdict == IF checked
                       THEN verify_signature(headers, raw_body, callback_secret)
                       ELSE "true"
            notification_data == parse_notification(raw_body)
            answer(calls, body, code) ==
                /\ w_calls' = calls
                /\ w_response' = [body |-> body, code |-> code]
                /\ w_pc' = "answered"
                /\ UNCHANGED <<classify_vars, notify_vars>>
            verify == IF checked THEN {"verify_signature"} ELSE {}
        IN  /\ w_request' = [method |-> "POST", body |-> raw_body, headers |-> headers]
            /\ IF raw_body = ""
               THEN answer({}, "", "400") /\ UNCHANGED last_notification_time
               ELSE IF verdict = "TypeError"
               THEN /\ answer(verify, InternalServerError.body, InternalServerError.code)
                    /\ UNCHANGED last_notification_time
               ELSE IF verdict = "false"
               THEN /\ answer(verify, "Invalid signature", "403")
                    /\ UNCHANGED last_notification_time
               ELSE IF notification_data.kind = "None"
               THEN /\ answer(verify \cup {"parse_notification"}, "Parse error", "400")
                    /\ UNCHANGED last_notification_time
               ELSE IF notification_data.kind = "deleted"
               THEN /\ answer(verify \cup {"parse_notification"}, "OK", "200")
                    /\ last_notification_time' = w_now
               ELSE /\ last_notification_time' = w_now
                    /\ w_calls' = verify \cup {"parse_notification", "process_youtube_notification"}
                    /\ w_response' = NoResponse
                    /\ w_pc' = "processing"
                    /\ c_pc' = "input"
                    /\ c_data' = notification_data.data
                    /\ n_pc' = "received"
                    /\ n_published' = published
                    /\ UNCHANGED <<c_key, c_api, c_type, n_todo, success_count,
                                   n_sends, n_send, n_result>>
    /\ UNCHANGED <<callback_secret, last_verification_time, w_now>>
    /\ UNCHANGED <<config_vars, poll_vars, handle_vars, rt_vars, sig_vars, rate_vars, sched_vars, more_vars>>

\* POST, after process_youtube_notification returned
webhook_return ==
    /\ w_pc = "processing"
    /\ n_pc = "done"
    /\ w_response' = IF n_result = "true"
                     THEN [body |-> "OK", code |-> "200"]
                     ELSE [body |-> "Processing failed", code |-> "500"]
    /\ w_pc' = "answered"
    /\ UNCHANGED <<callback_secret, last_verification_time, last_notification_time,
                   w_now, w_request, w_calls>>
    /\ UNCHANGED <<core_vars, handle_vars, rt_vars, sig_vars, rate_vars, sched_vars, more_vars>>

\* one call of verify_signature
call_verify_signature ==
    /\ s_pc = "call"
    /\ s_result' = verify_signature(s_headers, s_body, s_secret)
    /\ s_pc' = "returned"
    /\ UNCHANGED <<s_headers, s_body, s_secret, outside_sig>>

\* ------------------------------------------------------------------------
\* DiscordClient._enforce_rate_limit (app/discord/client.py), in tenths of a
\* second, by the threads that send: waitress request threads through the
\* client of main.py and the scheduler thread through the client of the
\* community post handler
\* ------------------------------------------------------------------------

\* self.rate_limit_delay = 0.2
rate_limit_delay == 2

\* the latest time.time() of a run
MaxRateClock == 5

\* discord_client of main.py and self.discord_client of the handler in scheduler.py
Clients == {"main", "scheduler"}

RateThreads == {"request_1", "request_2", "scheduler"}

client_of(t) == IF t = "scheduler" THEN "scheduler" ELSE "main"

\* the instant until which _enforce_rate_limit sleeps: current_time if it does not
sleep_until(current_time, last) ==
    LET time_since_last == current_time - last
    IN  IF time_since_last < rate_limit_delay
        THEN current_time + (rate_limit_delay - time_since_last)
        ELSE current_time

\* the last two calls after one more
with_call(calls, call) ==
    IF calls = <<>> THEN <<call>> ELSE <<calls[Len(calls)], call>>

pass_time ==
    /\ r_clock < MaxRateClock
    /\ r_clock' = r_clock + 1
    /\ UNCHANGED <<last_request_time, r_pc, r_wake, r_calls, outside_rate>>

\* _enforce_rate_limit up to the end of its if: reads the clock and last_request_time
read_last_request_time(t) ==
    /\ r_pc[t] = "idle"
    /\ r_wake' = [r_wake EXCEPT ![t] = sleep_until(r_clock, last_request_time[client_of(t)])]
    /\ r_pc' = [r_pc EXCEPT ![t] = "sleep"]
    /\ UNCHANGED <<r_clock, last_request_time, r_calls, outside_rate>>

\* the end of time.sleep (none if no sleep was due), the write of
\* last_request_time and the requests.post that follows
write_last_request_time(t) ==
    /\ r_pc[t] = "sleep"
    /\ r_clock >= r_wake[t]
    /\ last_request_time' = [last_request_time EXCEPT ![client_of(t)] = r_clock]
    /\ r_calls' = with_call(r_calls, [at |-> r_clock, thread |-> t])
    /\ r_pc' = [r_pc EXCEPT ![t] = "idle"]
    /\ UNCHANGED <<r_clock, r_wake, outside_rate>>

\* ------------------------------------------------------------------------
\* CommunityPostScheduler._run_scheduler and _wait_for_next_check
\* (app/utils/scheduler.py), in seconds
\* ------------------------------------------------------------------------

\* check_interval_seconds = check_interval_minutes * 60
SecondsPerMinute == 60

\* largest check_interval_minutes
MaxIntervalMinutes == 1

\* sleep_increment = 10
sleep_increment == 10

\* time.sleep(60) after an exception
error_sleep == 60

\* most check cycles of a run
MaxCycles == 2

\* seconds after which the time since stop() is no longer counted
MaxStopped == 61

NoneRaised == [check_community_posts |-> 0, on_posts_found |-> 0]

min(a, b) == IF a < b THEN a ELSE b

\* a wait loop that sleeps the whole interval out
keeps_waiting_when_stopped(waited, interval, flag) == waited < interval

\* the condition of the while loop of _wait_for_next_check
keeps_waiting(waited, interval, flag) == waited < interval /\ flag

\* after the except block of _run_scheduler: time.sleep(60) if still running
pc_after_error(flag) == IF flag THEN "error_sleep" ELSE "loop"

\* stop(): clears the flag (the join waits for the thread and changes nothing)
stop ==
    /\ running
    /\ k_pc # "terminated"
    /\ running' = FALSE
    /\ k_stopped_for' = 0
    /\ k_cycles_at_stop' = k_cycles
    /\ UNCHANGED <<check_interval_seconds, k_pc, wait_time, k_sleep, k_cycles,
                   k_raised, k_on_error, outside_sched>>

\* one second passes: while the check or the handler runs, or inside a time.sleep
one_second ==
    /\ \/ k_pc \in {"check", "callback"} /\ UNCHANGED k_sleep
       \/ k_pc \in {"sleep", "error_sleep"} /\ k_sleep > 0 /\ k_sleep' = k_sleep - 1
    /\ k_stopped_for' = IF running THEN k_stopped_for ELSE min(k_stopped_for + 1, MaxStopped)
    /\ UNCHANGED <<running, check_interval_seconds, k_pc, wait_time, k_cycles,
                   k_cycles_at_stop, k_raised, k_on_error, outside_sched>>

\* while self.running
loop_test ==
    /\ k_pc = "loop"
    /\ k_cycles < MaxCycles \/ ~running
    /\ IF running
       THEN k_pc' = "check" /\ k_cycles' = k_cycles + 1
       ELSE k_pc' = "terminated" /\ UNCHANGED k_cycles
    /\ UNCHANGED <<running, check_interval_seconds, wait_time, k_sleep, k_stopped_for,
                   k_cycles_at_stop, k_raised, k_on_error, outside_sched>>

\* _check_community_posts returns posts, returns none, or raises; the except
\* block calls on_error
check_community_posts ==
    /\ k_pc = "check"
    /\ \E outcome \in {"posts", "none", "raised"} :
        CASE outcome = "posts" ->
                /\ k_pc' = "callback"
                /\ UNCHANGED <<wait_time, k_sleep, k_raised, k_on_error>>
          [] outcome = "none" ->
                /\ k_pc' = "wait"
                /\ wait_time' = 0
                /\ UNCHANGED <<k_sleep, k_raised, k_on_error>>
          [] outcome = "raised" ->
                /\ k_raised' = [k_raised EXCEPT !.check_community_posts = @ + 1]
                /\ k_on_error' = k_on_error + 1
                /\ k_pc' = pc_after_error(running)
                /\ k_sleep' = IF running THEN error_sleep ELSE k_sleep
                /\ UNCHANGED wait_time
    /\ UNCHANGED <<running, check_interval_seconds, k_stopped_for, k_cycles,
                   k_cycles_at_stop, outside_sched>>

\* on_posts_found inside its own try, then on_check_complete and the call of
\* _wait_for_next_check
on_posts_found ==
    /\ k_pc = "callback"
    /\ \E outcome \in {"returned", "raised"} :
        k_raised' = IF outcome = "raised"
                    THEN [k_raised EXCEPT !.on_posts_found = @ + 1]
                    ELSE k_raised
    /\ k_pc' = "wait"
    /\ wait_time' = 0
    /\ UNCHANGED <<running, check_interval_seconds, k_sleep, k_stopped_for, k_cycles,
                   k_cycles_at_stop, k_on_error, outside_sched>>

\* the while test of _wait_for_next_check and the call of time.sleep
wait_test ==
    /\ k_pc = "wait"
    /\ IF keeps_waiting(wait_time, check_interval_seconds, running)
       THEN /\ k_pc' = "sleep"
            /\ k_sleep' = min(sleep_increment, check_interval_seconds - wait_time)
       ELSE /\ k_pc' = "loop"
            /\ UNCHANGED k_sleep
    /\ UNCHANGED <<running, check_interval_seconds, wait_time, k_stopped_for, k_cycles,
                   k_cycles_at_stop, k_raised, k_on_error, outside_sched>>

\* time.sleep returns: wait_time += sleep_increment
wake ==
    /\ k_pc = "sleep"
    /\ k_sleep = 0
    /\ wait_time' = wait_time + sleep_increment
    /\ k_pc' = "wait"
    /\ UNCHANGED <<running, check_interval_seconds, k_sleep, k_stopped_for, k_cycles,
                   k_cycles_at_stop, k_raised, k_on_error, outside_sched>>

\* time.sleep(60) returns
error_wake ==
    /\ k_pc = "error_sleep"
    /\ k_sleep = 0
    /\ k_pc' = "loop"
    /\ UNCHANGED <<running, check_interval_seconds, wait_time, k_sleep, k_stopped_for,
                   k_cycles, k_cycles_at_stop, k_raised, k_on_error, outside_sched>>

\* ------------------------------------------------------------------------
\* The community_posts table over several check cycles, with the relative
\* time texts of yp-dl (app/utils/community_scraper.py, app/utils/scheduler.py)
\* ------------------------------------------------------------------------

\* most posts of the community tab
MaxTablePosts == 2

\* last instant of the clock of the table
MaxTableClock == 3

\* ticks of the clock in one day, the unit of the texts "1 day ago", "2 days ago"
TicksPerDay == 2

\* the days arguments of cleanup_old_posts
CleanupDays == {1}

NoCycle == [outcome |-> "none", count |-> 0, on_error |-> 0, latest |-> 0, older |-> {}]

\* reported: check cycles that returned the post as new (counted up to 2);
\* notified: a row of the post has had notified = True; deleted: cleanup_old_posts
\* has deleted a row of the post
NoLog == [reported |-> 0, notified |-> FALSE, deleted |-> FALSE]

\* the time_since text of a post of the given age: whole days
time_since(age) == age \div TicksPerDay

\* the posts_data yp-dl --reverse writes: newest first; post_link has a
\* /post/ segment or not, text is the post's content
yp_dl_posts_data(tab, clock) ==
    [ i \in 1..Len(tab) |->
        LET n == Len(tab) + 1 - i
        IN  [ post_link |-> IF tab[n].link THEN n ELSE 0,
              text |-> n,
              time_since |-> time_since(clock - tab[n].at) ] ]

\* _parse_yp_dl_post_data: post_id is what follows /post/ in post_link, and
\* without it "community_" and the md5 of "text:time_since"
post_id_of(post_data) ==
    IF post_data.post_link # 0
    THEN [kind |-> "post", text |-> post_data.post_link, time_since |-> 0]
    ELSE [kind |-> "community", text |-> post_data.text, time_since |-> post_data.time_since]

\* _parse_time_since: datetime.now() of the call minus the days of the text
parse_time_since_days(text, clock) == clock - text * TicksPerDay

\* _parse_yp_dl_post_data: the CommunityPost of one element of posts_data
community_post(post_data, clock) ==
    [ post_id |-> post_id_of(post_data),
      published_time |-> parse_time_since_days(post_data.time_since, clock) ]

\* the post of the tab that a post id belongs to
content_of(post_id) == post_id.text

contents_of(posts) == {content_of(posts[i].post_id) : i \in 1..Len(posts)}

\* a cleanup that deletes by age alone
cleanup_whatever_notified(database, window, clock) ==
    {row \in database : ~(row.published_time < clock - window * TicksPerDay)}

\* CommunityPostDatabase.cleanup_old_posts: DELETE WHERE published_time < cutoff_date
\* AND notified IS TRUE
cleanup_old_posts(database, window, clock) ==
    {row \in database : ~(row.published_time < clock - window * TicksPerDay /\ row.notified)}

\* the contents of the rows with notified = True
notified_contents(database) == {content_of(row.post_id) : row \in {r \in database : r.notified}}

\* a failing scraper that makes the loop call on_error
cycle_of_failure_with_error ==
    [outcome |-> "failed", count |-> 0, on_error |-> 1, latest |-> 0, older |-> {}]

\* _run_scheduler when scrape_channel_posts returned [] after a failure of
\* yp-dl: on_posts_found is not called, on_check_complete(check_start_time, 0) is
cycle_of_failure ==
    [outcome |-> "failed", count |-> 0, on_error |-> 0, latest |-> 0, older |-> {}]

\* time passes
table_tick ==
    /\ t_now < MaxTableClock
    /\ t_now' = t_now + 1
    /\ UNCHANGED <<t_feed, t_db, t_pc, t_raw, t_new, t_cycle, t_log>>
    /\ UNCHANGED outside_table

\* the channel publishes a post
table_publish ==
    /\ Len(t_feed) < MaxTablePosts
    /\ \E link \in BOOLEAN : t_feed' = Append(t_feed, [at |-> t_now, link |-> link])
    /\ UNCHANGED <<t_now, t_db, t_pc, t_raw, t_new, t_cycle, t_log>>
    /\ UNCHANGED outside_table

\* _run_scheduler calls _check_community_posts and scrape_channel_posts runs
\* yp-dl: it exits non-zero, times out or writes no JSON file ("failed"), or it
\* writes posts_data
table_scrape ==
    /\ t_pc = "wait"
    /\ \E outcome \in {"failed", "posts"} :
        IF outcome = "failed"
        THEN /\ t_cycle' = cycle_of_failure
             /\ UNCHANGED <<t_pc, t_raw, t_new>>
        ELSE IF t_feed = <<>>
        THEN /\ t_cycle' = [NoCycle EXCEPT !.outcome = "empty"]
             /\ UNCHANGED <<t_pc, t_raw, t_new>>
        ELSE /\ t_pc' = "store"
             /\ t_raw' = take(yp_dl_posts_data(t_feed, t_now), ScrapeLimit)
             /\ t_new' = <<>>
             /\ t_cycle' = NoCycle
    /\ UNCHANGED <<t_now, t_feed, t_db, t_log>>
    /\ UNCHANGED outside_table

\* one turn of the loop over posts_data[:limit]: _parse_yp_dl_post_data, then
\* store_post; after the last one a cycle without a new post ends with
\* on_check_complete(check_start_time, 0)
table_store ==
    /\ t_pc = "store"
    /\ LET post == community_post(Head(t_raw), t_now)
           stored == store_post(t_db, post)
           found == IF stored.inserted THEN Append(t_new, post) ELSE t_new
           n == content_of(post.post_id)
       IN  /\ t_db' = stored.db
           /\ t_raw' = Tail(t_raw)
           /\ t_log' = IF stored.inserted
                       THEN [t_log EXCEPT ![n].reported = IF @ < 2 THEN @ + 1 ELSE @]
                       ELSE t_log
           /\ IF Tail(t_raw) # <<>>
              THEN /\ t_new' = found
                   /\ UNCHANGED <<t_pc, t_cycle>>
              ELSE IF found = <<>>
              THEN /\ t_new' = <<>>
                   /\ t_pc' = "wait"
                   /\ t_cycle' = [t_cycle EXCEPT !.outcome = "nothing new"]
              ELSE /\ t_new' = found
                   /\ t_pc' = "handle"
                   /\ UNCHANGED t_cycle
    /\ UNCHANGED <<t_now, t_feed>>
    /\ UNCHANGED outside_table

\* on_posts_found: handle_new_posts sorts the new posts, marks the older ones,
\* sends the latest one and marks it if a send succeeded; then on_check_complete
table_handle ==
    /\ t_pc = "handle"
    /\ \E successful_notifications \in 0..1 :
        LET sorted_posts == sort_newest_first(t_new)
            latest == latest_of(sorted_posts)
            older == older_posts(sorted_posts)
            marked == mark_all_notified(t_db, older)
            database == IF marks_latest(successful_notifications)
                        THEN mark_notified(marked, latest.post_id) ELSE marked
        IN  /\ t_db' = database
            /\ t_cycle' = [ t_cycle EXCEPT !.outcome = "handled", !.count = Len(t_new),
                                           !.latest = content_of(latest.post_id),
                                           !.older = contents_of(older) ]
            /\ t_log' = [ n \in 1..MaxTablePosts |->
                            [t_log[n] EXCEPT !.notified = @ \/ n \in notified_contents(database)] ]
    /\ t_pc' = "wait"
    /\ t_new' = <<>>
    /\ UNCHANGED <<t_now, t_feed, t_raw>>
    /\ UNCHANGED outside_table

\* CommunityPostScraper.cleanup_old_posts(days), between two cycles
table_cleanup ==
    /\ t_pc = "wait"
    /\ \E window \in CleanupDays :
        LET database == cleanup_old_posts(t_db, window, t_now)
        IN  /\ t_db' = database
            /\ t_log' = [ n \in 1..MaxTablePosts |->
                            [ t_log[n] EXCEPT !.deleted =
                                @ \/ \E row \in t_db \ database : content_of(row.post_id) = n ] ]
    /\ UNCHANGED <<t_now, t_feed, t_pc, t_raw, t_new, t_cycle>>
    /\ UNCHANGED outside_table

\* ------------------------------------------------------------------------
\* MessageTemplates.format_simple_message (app/config/messages.py) and
\* YouTubeNotification.get_discord_timestamp. A string is a sequence of tokens.
\* ------------------------------------------------------------------------

\* a key that the data dict does not have
Missing == "<missing>"

\* data['scheduled_start_time']: None, or a str (a date and what follows it), or an int
NoSchedule == [kind |-> "None", date |-> "", suffix |-> <<>>]

ScheduledValues ==
    {NoSchedule}
        \cup [kind : {"str"}, date : {"2026-01-01T00:00:00"}, suffix : {<<"Z">>, <<"+00:00">>, <<"?">>}]
        \cup {[kind |-> "str", date |-> "", suffix |-> <<>>]}
        \cup {[kind |-> "str", date |-> "invalid-timestamp", suffix |-> <<>>]}
        \cup {[kind |-> "int", date |-> "1767225600", suffix |-> <<>>]}

\* Python's truth value of a scheduled_start_time
schedule_truthy(value) == value.kind # "None" /\ value.date # ""

\* str.replace('Z', '+00:00') on what follows the date
RECURSIVE replace_z(_)
replace_z(suffix) ==
    IF suffix = <<>> THEN <<>>
    ELSE <<IF Head(suffix) = "Z" THEN "+00:00" ELSE Head(suffix)>> \o replace_z(Tail(suffix))

\* datetime.fromisoformat accepts the date with a UTC offset or without one
schedule_parses(date, suffix) ==
    date = "2026-01-01T00:00:00" /\ suffix \in {<<>>, <<"+00:00">>}

\* int(scheduled_dt.timestamp())
unix_timestamp(date) == IF date = "2026-01-01T00:00:00" THEN "1767225600" ELSE "0"

\* a formatter that puts the text itself where it cannot parse it
get_discord_timestamp_unparsed(scheduled_start_time) ==
    IF ~schedule_truthy(scheduled_start_time) THEN <<"soon">>
    ELSE IF scheduled_start_time.kind # "str" THEN <<scheduled_start_time.date>>
    ELSE IF schedule_parses(scheduled_start_time.date, replace_z(scheduled_start_time.suffix))
    THEN <<"<t:", unix_timestamp(scheduled_start_time.date), ":R>">>
    ELSE <<scheduled_start_time.date>> \o scheduled_start_time.suffix

\* YouTubeNotification.get_discord_timestamp: "soon" without a value, and when
\* .replace raises AttributeError or fromisoformat raises ValueError
get_discord_timestamp(scheduled_start_time) ==
    IF ~schedule_truthy(scheduled_start_time) THEN <<"soon">>
    ELSE IF scheduled_start_time.kind # "str" THEN <<"soon">>
    ELSE IF schedule_parses(scheduled_start_time.date, replace_z(scheduled_start_time.suffix))
    THEN <<"<t:", unix_timestamp(scheduled_start_time.date), ":R>">>
    ELSE <<"soon">>

\* " ".join([f"<@&{role_id}>" for role_id in role_mentions])
RECURSIVE join_mentions(_)
join_mentions(role_mentions) ==
    IF role_mentions = <<>> THEN <<>>
    ELSE IF Len(role_mentions) = 1 THEN <<"<@&", Head(role_mentions), ">">>
    ELSE <<"<@&", Head(role_mentions), ">", " ">> \o join_mentions(Tail(role_mentions))

\* data.get(key, default)
get_or(value, default) == IF value = Missing THEN default ELSE value

TemplateTypes == {"upload", "livestream", "livestream_live", "community", "unknown"}

\* SIMPLE_MESSAGE_TEMPLATES.get(template_type, SIMPLE_MESSAGE_TEMPLATES['upload']),
\* filled by template.format(**format_data)
simple_message(template_type, role_mentions, scheduled_time, author, title, url) ==
    CASE template_type = "livestream" ->
            role_mentions \o <<" starting ">> \o scheduled_time \o <<": [", title, "](", url, ")">>
      [] template_type = "livestream_live" ->
            role_mentions \o <<" LIVE: [", title, "](", url, ")">>
      [] template_type = "community" ->
            role_mentions \o <<" ", author, " has made a new post! [View here.](", url, ")">>
      [] OTHER ->
            role_mentions \o <<" [", title, "](", url, ")">>

FormatData ==
    [ author : {"Test Channel"},
      title : {Missing, "Test Stream"},
      url : {Missing, "https://www.youtube.com/watch?v=abc"},
      scheduled_start_time : ScheduledValues ]

NoFormatData == [author |-> Missing, title |-> Missing, url |-> Missing, scheduled_start_time |-> NoSchedule]

RoleMentions == {<<>>, <<"234">>, <<"234", "345">>}

\* MessageTemplates.format_simple_message
format_simple_message ==
    /\ f_pc = "call"
    /\ LET author == get_or(f_data.author, "Unknown Channel")
           title == get_or(f_data.title, "Unknown Title")
           url == get_or(f_data.url, "https://youtube.com")
           role_mentions_str == join_mentions(f_role_mentions)
           scheduled_time ==
               IF f_template_type = "livestream" /\ schedule_truthy(f_data.scheduled_start_time)
               THEN get_discord_timestamp(f_data.scheduled_start_time)
               ELSE <<"soon">>
       IN  f_message' = simple_message(f_template_type, role_mentions_str, scheduled_time,
                                       author, title, url)
    /\ f_pc' = "returned"
    /\ UNCHANGED <<f_template_type, f_data, f_role_mentions>>
    /\ UNCHANGED outside_fmt

\* the caller takes the message and the next call begins
next_message ==
    /\ f_pc = "returned"
    /\ f_pc' = "call"
    /\ f_message' = <<>>
    /\ f_template_type' \in TemplateTypes
    /\ f_data' \in FormatData
    /\ f_role_mentions' \in RoleMentions
    /\ UNCHANGED outside_fmt

\* ------------------------------------------------------------------------
\* DiscordConfiguration.disable_server / enable_server and the two delivery
\* paths: process_youtube_notification reads the DiscordConfiguration,
\* handle_new_posts reads the settings.
\* ------------------------------------------------------------------------

WebhookUrls == {"https://discord.com/api/webhooks/1", "https://discord.com/api/webhooks/2"}

\* UPLOAD_WEBHOOK_URLS, LIVESTREAM_WEBHOOK_URLS, COMMUNITY_WEBHOOK_URLS
UrlLists ==
    {<<>>, <<"https://discord.com/api/webhooks/1">>, <<"https://discord.com/api/webhooks/2">>,
     <<"https://discord.com/api/webhooks/1", "https://discord.com/api/webhooks/2">>}

\* _validate_required_settings: at least one webhook URL over all content types
UrlSettings ==
    { st \in [ContentTypes -> UrlLists] :
        Len(st["upload"]) + Len(st["livestream"]) + Len(st["community"]) > 0 }

NoDelivery == [content_type |-> "", urls |-> <<>>, disabled |-> {}]

\* Settings.get_webhooks_for_type over the URL lists
webhooks_for_type(st, content_type) ==
    LET key == IF content_type = "livestream_live" THEN "livestream" ELSE content_type
    IN  IF key \in ContentTypes THEN st[key] ELSE <<>>

\* the add_server calls of from_settings for one content type
add_servers(st, content_type) ==
    [ i \in 1..Len(st[content_type]) |->
        [webhook_url |-> st[content_type][i], content_type |-> content_type, enabled |-> TRUE] ]

\* DiscordConfiguration.from_settings over the URL lists
config_from_settings(st) ==
    add_servers(st, "upload") \o add_servers(st, "livestream") \o add_servers(st, "community")

\* the index of the first server with the URL, 0 when there is none
first_server(servers, webhook_url) ==
    LET found == {i \in 1..Len(servers) : servers[i].webhook_url = webhook_url}
    IN  IF found = {} THEN 0 ELSE CHOOSE i \in found : \A j \in found : i <= j

\* the for loop of disable_server and enable_server: the first match, then break
set_enabled(servers, webhook_url, enabled) ==
    LET i == first_server(servers, webhook_url)
    IN  IF i = 0 THEN servers
        ELSE [servers EXCEPT ![i] = [@ EXCEPT !.enabled = enabled]]

\* the webhook_url of each server
urls_of(servers) == [i \in 1..Len(servers) |-> servers[i].webhook_url]

\* DiscordConfiguration.disable_server
disable_server ==
    /\ \E webhook_url \in WebhookUrls :
        /\ d_servers' = set_enabled(d_servers, webhook_url, FALSE)
        /\ d_disabled' = d_disabled \cup {webhook_url}
    /\ UNCHANGED <<d_settings, d_last>>
    /\ UNCHANGED outside_able

\* DiscordConfiguration.enable_server
enable_server ==
    /\ \E webhook_url \in WebhookUrls :
        /\ d_servers' = set_enabled(d_servers, webhook_url, TRUE)
        /\ d_disabled' = d_disabled \ {webhook_url}
    /\ UNCHANGED <<d_settings, d_last>>
    /\ UNCHANGED outside_able

\* process_youtube_notification: one send for each server of the type
deliver_notification ==
    /\ \E notification_type \in {UPLOAD, LIVESTREAM, LIVESTREAM_LIVE} :
        d_last' = [content_type |-> notification_type,
                   urls |-> urls_of(get_servers_for_type(d_servers, notification_type)),
                   disabled |-> d_disabled]
    /\ UNCHANGED <<d_settings, d_servers, d_disabled>>
    /\ UNCHANGED outside_able

\* handle_new_posts: one send for each community webhook URL of the settings
deliver_community_post ==
    /\ d_last' = [content_type |-> "community",
                  urls |-> webhooks_for_type(d_settings, "community"),
                  disabled |-> d_disabled]
    /\ UNCHANGED <<d_settings, d_servers, d_disabled>>
    /\ UNCHANGED outside_able

\* ------------------------------------------------------------------------
\* CommunityPostScheduler.start / stop and the threads they leave in
\* _run_scheduler. One caller makes the calls one after the other; every
\* thread.start() gives a new thread.
\* ------------------------------------------------------------------------

\* most threads that start() creates in a run
MaxLoopThreads == 2

LoopThreads == 1..MaxLoopThreads

\* self.scheduler_thread.join(timeout=5)
join_timeout == 5

\* the threads that are inside _run_scheduler
in_run_scheduler == {t \in LoopThreads : x_pc[t] \notin {"unborn", "done"}}

\* start(): `if self.running: return` before the thread is created
start_spawns(flag) == ~flag

\* CommunityPostScheduler.start
start_scheduler ==
    /\ x_caller = "idle"
    /\ IF start_spawns(x_running)
       THEN /\ x_thread < MaxLoopThreads
            /\ x_running' = TRUE
            /\ x_thread' = x_thread + 1
            /\ x_pc' = [x_pc EXCEPT ![x_thread + 1] = "test"]
            /\ x_call' = "started"
       ELSE /\ x_call' = "already running"
            /\ UNCHANGED <<x_running, x_thread, x_pc>>
    /\ UNCHANGED <<x_wait_time, x_left, x_caller, x_join, x_asked, x_resumed>>
    /\ UNCHANGED outside_thread

\* CommunityPostScheduler.stop, up to the join
stop_scheduler ==
    /\ x_caller = "idle"
    /\ IF ~x_running
       THEN /\ x_call' = "not running"
            /\ UNCHANGED <<x_running, x_caller, x_join, x_asked>>
       ELSE /\ x_running' = FALSE
            /\ x_call' = "stopped"
            /\ x_asked' = x_asked \cup in_run_scheduler
            /\ IF x_thread # 0 /\ x_thread \in in_run_scheduler
               THEN x_caller' = "joining" /\ x_join' = join_timeout
               ELSE UNCHANGED <<x_caller, x_join>>
    /\ UNCHANGED <<x_thread, x_pc, x_wait_time, x_left, x_resumed>>
    /\ UNCHANGED outside_thread

\* join returns: the thread has ended, or the timeout has run out
join_returns ==
    /\ x_caller = "joining"
    /\ x_pc[x_thread] = "done" \/ x_join = 0
    /\ x_caller' = "idle"
    /\ x_join' = 0
    /\ UNCHANGED <<x_running, x_thread, x_pc, x_wait_time, x_left, x_call, x_asked, x_resumed>>
    /\ UNCHANGED outside_thread

\* `while self.running` of _run_scheduler
thread_loop_test(t) ==
    /\ x_pc[t] = "test"
    /\ x_pc' = [x_pc EXCEPT ![t] = IF x_running THEN "check" ELSE "done"]
    /\ x_resumed' = IF x_running /\ t \in x_asked THEN x_resumed \cup {t} ELSE x_resumed
    /\ UNCHANGED <<x_running, x_thread, x_wait_time, x_left, x_caller, x_join, x_call, x_asked>>
    /\ UNCHANGED outside_thread

\* _check_community_posts and the callbacks, then wait_time = 0
thread_check(t) ==
    /\ x_pc[t] = "check"
    /\ x_pc' = [x_pc EXCEPT ![t] = "wait"]
    /\ x_wait_time' = [x_wait_time EXCEPT ![t] = 0]
    /\ UNCHANGED <<x_running, x_thread, x_left, x_caller, x_join, x_call, x_asked, x_resumed>>
    /\ UNCHANGED outside_thread

\* the while test of _wait_for_next_check and the call of time.sleep
thread_wait_test(t) ==
    /\ x_pc[t] = "wait"
    /\ IF keeps_waiting(x_wait_time[t], SecondsPerMinute, x_running)
       THEN /\ x_pc' = [x_pc EXCEPT ![t] = "sleep"]
            /\ x_left' = [x_left EXCEPT ![t] = min(sleep_increment, SecondsPerMinute - x_wait_time[t])]
       ELSE /\ x_pc' = [x_pc EXCEPT ![t] = "test"]
            /\ UNCHANGED x_left
    /\ UNCHANGED <<x_running, x_thread, x_wait_time, x_caller, x_join, x_call, x_asked, x_resumed>>
    /\ UNCHANGED outside_thread

\* time.sleep returns: wait_time += sleep_increment
thread_wake(t) ==
    /\ x_pc[t] = "sleep"
    /\ x_left[t] = 0
    /\ x_pc' = [x_pc EXCEPT ![t] = "wait"]
    /\ x_wait_time' = [x_wait_time EXCEPT ![t] = x_wait_time[t] + sleep_increment]
    /\ UNCHANGED <<x_running, x_thread, x_left, x_caller, x_join, x_call, x_asked, x_resumed>>
    /\ UNCHANGED outside_thread

\* the seconds left of every time.sleep and of the join that are going on
timers ==
    {x_left[t] : t \in {u \in LoopThreads : x_pc[u] = "sleep"}}
        \cup (IF x_caller = "joining" THEN {x_join} ELSE {})

\* time passes until the first sleep or join runs out; a thread spends it in
\* the check or in time.sleep, the two while tests take none
thread_time_passes ==
    /\ timers # {}
    /\ 0 \notin timers
    /\ \A t \in LoopThreads : x_pc[t] \notin {"test", "wait"}
    /\ LET passed == CHOOSE d \in timers : \A e \in timers : d <= e
       IN  /\ x_left' = [t \in LoopThreads |->
                            IF x_pc[t] = "sleep" THEN x_left[t] - passed ELSE x_left[t]]
           /\ x_join' = IF x_caller = "joining" THEN x_join - passed ELSE x_join
    /\ UNCHANGED <<x_running, x_thread, x_pc, x_wait_time, x_caller, x_call, x_asked, x_resumed>>
    /\ UNCHANGED outside_thread

\* ------------------------------------------------------------------------
\* Initial values of the parts a specification leaves alone
\* ------------------------------------------------------------------------

NotifyOff ==
    /\ n_pc = "off"
    /\ n_published = [kind |-> "absent", age |-> 0]
    /\ n_todo = <<>>
    /\ success_count = 0
    /\ n_sends = 0
    /\ n_send = NoSend
    /\ n_result = "none"

PollOff ==
    /\ now = 0
    /\ feed = <<>>
    /\ db = {}
    /\ pc = [t \in Threads |-> "off"]
    /\ raw = [t \in Threads |-> <<>>]
    /\ new_posts = [t \in Threads |-> <<>>]
    /\ latest_post = [t \in Threads |-> NoPost]
    /\ history = [p \in PostIds |-> NoHistory]
    /\ retry_due = [t \in Threads |-> {}]

ConfigOff ==
    /\ settings = [t \in ContentTypes |-> IF t = "upload" THEN 1 ELSE 0]
    /\ discord_config = from_settings(settings)

\* the request path and the poll coordinator at rest
CoreOff ==
    /\ c_pc = "off"
    /\ c_key = FALSE
    /\ c_data = [video_id |-> TRUE, title |-> <<>>, live_broadcast_content |-> "",
                 scheduled_start_time |-> FALSE, actual_start_time |-> FALSE]
    /\ c_api = NotCalled
    /\ c_type = "unknown"
    /\ ConfigOff
    /\ NotifyOff
    /\ PollOff

HandleOff ==
    /\ h_clock = 0
    /\ channel_handles = NoEntry
    /\ h_call = NoCall

RtOff ==
    /\ rt_pc = "off"
    /\ rt_post = NoCommunityPost
    /\ rt_row = NoRow
    /\ rt_back = NoCommunityPost

WebOff ==
    /\ callback_secret = ""
    /\ last_verification_time = NoTime
    /\ last_notification_time = NoTime
    /\ w_now = NoTime
    /\ w_pc = "off"
    /\ w_request = NoRequest
    /\ w_calls = {}
    /\ w_response = NoResponse

SigOff ==
    /\ s_pc = "off"
    /\ s_headers = NoHeaders
    /\ s_body = ""
    /\ s_secret = ""
    /\ s_result = "none"

RateOff ==
    /\ r_clock = 0
    /\ last_request_time = [c \in Clients |-> 0]
    /\ r_pc = [t \in RateThreads |-> "off"]
    /\ r_wake = [t \in RateThreads |-> 0]
    /\ r_calls = <<>>

SchedOff ==
    /\ running = FALSE
    /\ check_interval_seconds = 0
    /\ k_pc = "off"
    /\ wait_time = 0
    /\ k_sleep = 0
    /\ k_stopped_for = 0
    /\ k_cycles = 0
    /\ k_cycles_at_stop = 0
    /\ k_raised = NoneRaised
    /\ k_on_error = 0

TableOff ==
    /\ t_now = 0
    /\ t_feed = <<>>
    /\ t_db = {}
    /\ t_pc = "off"
    /\ t_raw = <<>>
    /\ t_new = <<>>
    /\ t_cycle = NoCycle
    /\ t_log = [n \in 1..MaxTablePosts |-> NoLog]

FmtOff ==
    /\ f_pc = "off"
    /\ f_template_type = ""
    /\ f_data = NoFormatData
    /\ f_role_mentions = <<>>
    /\ f_message = <<>>

AbleOff ==
    /\ d_settings = [t \in ContentTypes |-> <<>>]
    /\ d_servers = <<>>
    /\ d_disabled = {}
    /\ d_last = NoDelivery

ThreadOff ==
    /\ x_running = FALSE
    /\ x_thread = 0
    /\ x_pc = [t \in LoopThreads |-> "unborn"]
    /\ x_wait_time = [t \in LoopThreads |-> 0]
    /\ x_left = [t \in LoopThreads |-> 0]
    /\ x_caller = "idle"
    /\ x_join = 0
    /\ x_call = "none"
    /\ x_asked = {}
    /\ x_resumed = {}

MoreOff == TableOff /\ FmtOff /\ AbleOff /\ ThreadOff

SideOff == HandleOff /\ RtOff /\ WebOff /\ SigOff /\ RateOff /\ SchedOff /\ MoreOff

\* ------------------------------------------------------------------------
\* SpecClassify: from_websub_data on every event descriptor and API answer
\* ------------------------------------------------------------------------

InitClassify ==
    /\ c_pc = "input"
    /\ c_key \in BOOLEAN
    /\ c_data \in ParsedEvents
    /\ c_api = NotCalled
    /\ c_type = "unknown"
    /\ ConfigOff
    /\ NotifyOff
    /\ PollOff
    /\ SideOff

from_websub_data ==
    /\ c_pc = "input"
    /\ n_pc = "off"
    /\ \E resp \in (IF lookup_made(c_key, c_data) THEN ApiResponses ELSE {NotCalled}) :
        /\ c_api' = resp
        /\ c_type' = determine_notification_type(c_key, c_data, resp)
        /\ c_data' = data_after_lookup(c_key, c_data, resp)
    /\ c_pc' = "classified"
    /\ UNCHANGED <<c_key, config_vars, notify_vars, poll_vars, side_vars>>

NextClassify == from_websub_data

SpecClassify == InitClassify /\ [][NextClassify]_vars

\* ------------------------------------------------------------------------
\* SpecNotify: one webhook POST through process_youtube_notification
\* ------------------------------------------------------------------------

InitNotify ==
    /\ c_pc = "input"
    /\ c_key \in BOOLEAN
    /\ c_data \in NotifyEvents
    /\ c_api = NotCalled
    /\ c_type = "unknown"
    /\ settings \in NotifySettings
    /\ discord_config = from_settings(settings)
    /\ n_pc = "received"
    /\ n_published \in PublishedValues
    /\ n_todo = <<>>
    /\ success_count = 0
    /\ n_sends = 0
    /\ n_send = NoSend
    /\ n_result = "none"
    /\ PollOff
    /\ SideOff

NextNotify ==
    \/ process_youtube_notification
    \/ send_to_server

SpecNotify == InitNotify /\ [][NextNotify]_vars

\* ------------------------------------------------------------------------
\* SpecPoll: the poll coordinator with one request thread
\* ------------------------------------------------------------------------

\* initialize_app starts the handler and the scheduler only with a community server:
\* one community webhook, or as many as a content type can have
PollSettings ==
    { st \in SettingsValues :
        st["community"] \in {1, MaxServers} /\ st["upload"] = 0 /\ st["livestream"] = 0 }

InitPoll ==
    /\ c_pc = "input"
    /\ c_key = FALSE
    /\ c_data = [video_id |-> TRUE, title |-> <<>>, live_broadcast_content |-> "",
                 scheduled_start_time |-> FALSE, actual_start_time |-> FALSE]
    /\ c_api = NotCalled
    /\ c_type = "unknown"
    /\ NotifyOff
    /\ SideOff
    /\ settings \in PollSettings
    /\ discord_config = from_settings(settings)
    /\ now = 0
    /\ feed = <<>>
    /\ db = {}
    /\ pc = [t \in Threads |-> rest(t)]
    /\ raw = [t \in Threads |-> <<>>]
    /\ new_posts = [t \in Threads |-> <<>>]
    /\ latest_post = [t \in Threads |-> NoPost]
    /\ history = [p \in PostIds |-> NoHistory]
    /\ retry_due = [t \in Threads |-> {}]

NextPoll ==
    \/ tick
    \/ publish
    \/ run_scheduler
    \/ force_check
    \/ \E t \in Threads : scrape_channel_posts(t)
    \/ \E t \in Threads : store_scraped_post(t)
    \/ \E t \in Threads : send_community_post(t)

SpecPoll == InitPoll /\ [][NextPoll]_vars

\* ------------------------------------------------------------------------
\* Properties of the classifier (SpecClassify)
\* ------------------------------------------------------------------------

\* C8: whenever the metadata lookup succeeds and reports actualEndTime, the
\* classification is LIVESTREAM_COMPLETED, whatever the broadcast flag, the
\* start times, the upload status and the title are.
C8_EndTimeMeansCompleted ==
    (c_pc = "classified" /\ c_api.outcome = "item" /\ c_api.item.actualEndTime)
        => c_type = LIVESTREAM_COMPLETED

\* a stream that has ended while its flag still says "live"
C8_Witness ==
    /\ c_pc = "classified"
    /\ c_api.outcome = "item"
    /\ c_api.item.actualEndTime
    /\ c_api.item.actualStartTime
    /\ c_api.item.liveBroadcastContent = "live"
    /\ c_type = LIVESTREAM_COMPLETED

C10_HintBeforeTitle ==
    (c_pc = "classified" /\ ~c_key) =>
        /\ c_data.live_broadcast_content = "live" => c_type = LIVESTREAM_LIVE
        /\ c_data.live_broadcast_content = "upcoming" => c_type = LIVESTREAM

\* the hint "live" on a title that has a livestream keyword
C10_Witness ==
    /\ c_pc = "classified"
    /\ ~c_key
    /\ c_data.live_broadcast_content = "live"
    /\ has_indicator(c_data.title, fallback_live_indicators)
    /\ c_type = LIVESTREAM_LIVE

\* ------------------------------------------------------------------------
\* Properties of the request path (SpecNotify)
\* ------------------------------------------------------------------------

\* C4: one send makes at most two network calls: a 429 is retried once, and a
\* second consecutive 429 ends the send.
C4_AtMostTwoCalls ==
    /\ n_send.calls <= 2
    /\ n_send.calls = 2 => n_send.result # "retry"

\* C5: for an event classified LIVESTREAM_COMPLETED the handler returns True
\* and has called send_youtube_notification for no server.
C5_CompletedIsNeverSent ==
    (c_pc = "classified" /\ c_type = LIVESTREAM_COMPLETED) =>
        /\ n_pc = "done"
        /\ n_result = "true"
        /\ n_sends = 0
        /\ n_send = NoSend

\* a recent completed livestream, with upload and livestream servers configured
C5_Witness ==
    /\ c_pc = "classified"
    /\ c_type = LIVESTREAM_COMPLETED
    /\ settings["upload"] > 0
    /\ settings["livestream"] > 0
    /\ n_published.kind = "timestamp"
    /\ is_recent(n_published, RecentHours)
    /\ n_pc = "done"
    /\ n_result = "true"

\* the classification came from _fallback_title_detection
on_fallback_path ==
    \/ ~c_key
    \/ c_api.outcome \in ApiFailures \cup {"no_items"}

C14_EveryServerIsTried ==
    ( /\ n_pc = "done"
      /\ c_type # LIVESTREAM_COMPLETED
      /\ is_recent(n_published, RecentHours)
      /\ get_servers_for_type(discord_config, c_type) # <<>> )
        => /\ n_sends = Len(get_servers_for_type(discord_config, c_type))
           /\ success_count <= n_sends
           /\ n_result = "true" <=> success_count > 0
           /\ n_result = "false" <=> success_count = 0

\* two servers: the send to the first failed, the second was still tried and succeeded
C14_Witness ==
    /\ n_pc = "done"
    /\ Len(get_servers_for_type(discord_config, c_type)) = 2
    /\ n_sends = 2
    /\ success_count = 1
    /\ n_send.result = "true"
    /\ n_result = "true"

\* C15: when no server is configured for the type of the event, the handler
\* makes no send and returns True.
C15_NoServerIsSuccess ==
    (c_pc = "classified" /\ get_servers_for_type(discord_config, c_type) = <<>>)
        => (n_pc = "done" /\ n_result = "true" /\ n_sends = 0 /\ n_send = NoSend)

\* a recent upload when only livestream servers are configured
C15_Witness ==
    /\ c_pc = "classified"
    /\ c_type = UPLOAD
    /\ settings["upload"] = 0
    /\ settings["livestream"] > 0
    /\ is_recent(n_published, RecentHours)
    /\ n_pc = "done"
    /\ n_result = "true"
    /\ n_sends = 0

\* ------------------------------------------------------------------------
\* Properties of the poll coordinator (SpecPoll)
\* ------------------------------------------------------------------------

\* C1: of the new posts of a check only the latest is sent; every other new
\* post is marked notified by the handler and no send is ever made for it.
C1_OnlyLatestIsSent ==
    /\ \A p \in PostIds :
        history[p].superseded => (~history[p].sent /\ notified(db, p))
    /\ \A t \in Threads :
        pc[t] = "send" =>
            \A p \in ids_of(new_posts[t]) \ {latest_post[t].post_id} : history[p].superseded

\* a check found two new posts: one was sent, the other marked without a send
C1_Witness ==
    \E p, q \in PostIds :
        /\ p # q
        /\ history[p].sent
        /\ ~history[p].superseded
        /\ history[q].superseded
        /\ ~history[q].sent
        /\ notified(db, q)

\* C2: a check that ends without a newer post has attempted the delivery of the
\* posts that failed sends had left unnotified when it began.
C2_FailedPostIsRetried ==
    [][ \A t \in Threads :
            (pc[t] = "store" /\ pc'[t] = rest(t)) => retry_due[t] = {} ]_vars

C6_OneCheckAtATime ==
    Cardinality({t \in Threads : pc[t] \in {"scrape", "store", "send"}}) <= 1

\* C7: of the store_post calls for one post id exactly one returns True, the
\* table holds one row for it, and the row keeps the fields of that first call.
C7_FirstWriterWins ==
    \A p \in PostIds :
        /\ Cardinality(rows_of(db, p)) <= 1
        /\ history[p].stored <= 1
        /\ history[p].stored = 1 <=> rows_of(db, p) # {}
        /\ \A row \in rows_of(db, p) : row.published_time = history[p].first_published

\* a second store_post with another published_time was turned away
C7_Witness ==
    \E p \in PostIds :
        /\ history[p].rejected
        /\ history[p].stored = 1
        /\ \E row \in rows_of(db, p) : row.published_time = history[p].first_published

\* ------------------------------------------------------------------------
\* SpecHandle: the channel handle cache over time
\* ------------------------------------------------------------------------

InitHandle ==
    /\ MoreOff
    /\ CoreOff
    /\ h_clock = 0
    /\ channel_handles \in StoredEntries
    /\ h_call = NoCall
    /\ RtOff
    /\ WebOff
    /\ SigOff
    /\ RateOff
    /\ SchedOff

NextHandle ==
    \/ advance
    \/ resolve_channel_handle

SpecHandle == InitHandle /\ [][NextHandle]_vars

\* C12: a cache entry with a readable last_verified is a hit exactly when it is
\* less than 30 days old; a hit returns its handle without a resolution, a miss
\* makes _resolve_channel_handle resolve the handle again.
C12_FreshWithinThirtyDays ==
    ( /\ h_call.made
      /\ h_call.entry # NoEntry
      /\ h_call.entry.suffix \in {<<"+00:00">>, <<"Z">>, <<"+00:00", "Z">>} )
        => LET age == h_call.at - h_call.entry.instant
           IN  IF age < StaleDays * UnitsPerDay
               THEN ~h_call.resolved /\ h_call.result = h_call.entry.handle
               ELSE h_call.resolved

\* an entry 31 days old was passed over and the handle resolved again
C12_Witness ==
    /\ h_call.made
    /\ h_call.entry # NoEntry
    /\ h_call.at - h_call.entry.instant = (StaleDays + 1) * UnitsPerDay
    /\ h_call.resolved
    /\ h_call.result = "@new"
    /\ channel_handles = cache_handle("@new", h_clock)

\* ------------------------------------------------------------------------
\* SpecRoundTrip: every CommunityPost written and read back
\* ------------------------------------------------------------------------

InitRoundTrip ==
    /\ MoreOff
    /\ CoreOff
    /\ HandleOff
    /\ rt_pc = "post"
    /\ rt_post \in CommunityPosts
    /\ rt_row = NoRow
    /\ rt_back = NoCommunityPost
    /\ WebOff
    /\ SigOff
    /\ RateOff
    /\ SchedOff

NextRoundTrip ==
    \/ store_community_post
    \/ read_community_post

SpecRoundTrip == InitRoundTrip /\ [][NextRoundTrip]_vars

\* C13: a post that was stored and read back equals the post written, field
\* for field, None, empty and non-empty values kept apart.
C13_RoundTrip ==
    rt_pc = "read" => rt_back = rt_post

\* ------------------------------------------------------------------------
\* SpecWebhook: one request to /webhook, after any earlier requests
\* ------------------------------------------------------------------------

\* upload servers, with or without livestream servers
WebhookSettings ==
    { st \in NotifySettings : st["upload"] = 1 /\ st["livestream"] \in {0, MaxServers} }

InitWebhook ==
    /\ MoreOff
    /\ c_pc = "off"
    /\ c_key \in BOOLEAN
    /\ c_data = NoData
    /\ c_api = NotCalled
    /\ c_type = "unknown"
    /\ settings \in WebhookSettings
    /\ discord_config = from_settings(settings)
    /\ NotifyOff
    /\ PollOff
    /\ HandleOff
    /\ RtOff
    /\ SigOff
    /\ RateOff
    /\ SchedOff
    /\ callback_secret \in {"", "secret"}
    /\ last_verification_time \in {NoTime, Earlier}
    /\ last_notification_time \in {NoTime, Earlier}
    /\ w_now = Now
    /\ w_pc = "idle"
    /\ w_request = NoRequest
    /\ w_calls = {}
    /\ w_response = NoResponse

NextWebhook ==
    \/ webhook_get
    \/ webhook_post
    \/ process_youtube_notification
    \/ send_to_server
    \/ webhook_return

SpecWebhook == InitWebhook /\ [][NextWebhook]_vars

\* C16: a POST whose body holds a tombstone is answered 200 OK without a
\* metadata lookup, a classification or a send.
C16_TombstoneIsAcknowledged ==
    ( /\ w_pc # "idle"
      /\ w_request.method = "POST"
      /\ fromstring(w_request.body).deleted_entry
      /\ verify_signature(w_request.headers, w_request.body, callback_secret) = "true" )
        => /\ w_pc = "answered"
           /\ w_response = [body |-> "OK", code |-> "200"]
           /\ "process_youtube_notification" \notin w_calls
           /\ c_pc = "off" /\ c_api = NotCalled /\ c_type = "unknown"
           /\ n_pc = "off" /\ n_sends = 0 /\ n_send = NoSend

\* a tombstone followed by an entry with ids, on a route with servers for its type
C16_Witness ==
    /\ w_pc = "answered"
    /\ w_request.method = "POST"
    /\ fromstring(w_request.body).deleted_entry
    /\ fromstring(w_request.body).entry
    /\ c_key
    /\ w_calls = {"verify_signature", "parse_notification"}
    /\ w_response.code = "200"
    /\ n_sends = 0

\* the POST reached the signature check of a route with a secret
signature_checked ==
    /\ w_pc # "idle"
    /\ w_request.method = "POST"
    /\ w_request.body # ""
    /\ callback_secret # ""

\* C17: with a secret configured, a POST whose signature does not verify is
\* answered 403, and nothing is parsed, classified or sent and
\* last_notification_time keeps its value.
C17_BadSignatureIs403 ==
    ( /\ signature_checked
      /\ verify_signature(w_request.headers, w_request.body, callback_secret) # "true" )
        => /\ w_pc = "answered"
           /\ w_response = [body |-> "Invalid signature", code |-> "403"]
           /\ w_calls = {"verify_signature"}
           /\ last_notification_time # Now
           /\ c_pc = "off" /\ c_api = NotCalled
           /\ n_pc = "off" /\ n_sends = 0 /\ n_send = NoSend

\* the same for the signatures that verify_signature answers with False
C17_RejectedSignatureIs403 ==
    ( /\ signature_checked
      /\ verify_signature(w_request.headers, w_request.body, callback_secret) = "false" )
        => /\ w_pc = "answered"
           /\ w_response = [body |-> "Invalid signature", code |-> "403"]
           /\ w_calls = {"verify_signature"}
           /\ last_notification_time # Now
           /\ c_pc = "off" /\ c_api = NotCalled
           /\ n_pc = "off" /\ n_sends = 0 /\ n_send = NoSend

\* C19: a GET is answered with the challenge and 200 exactly when hub.mode,
\* hub.topic and hub.challenge are present and hub.mode is subscribe or
\* unsubscribe; every other GET is answered 400 and leaves
\* last_verification_time as it was.
C19_ChallengeIsEchoed ==
    (w_pc = "answered" /\ w_request.method = "GET")
        => LET args == w_request.args
               present(v) == v \notin {NoArg, ""}
           IN  IF /\ present(args.hub_mode)
                  /\ present(args.hub_topic)
                  /\ present(args.hub_challenge)
                  /\ args.hub_mode \in {"subscribe", "unsubscribe"}
               THEN /\ w_response = [body |-> args.hub_challenge, code |-> "200"]
                    /\ last_verification_time = Now
               ELSE /\ w_response = [body |-> "", code |-> "400"]
                    /\ last_verification_time # Now

\* a complete challenge with a hub.mode that is neither, after an earlier verification
C19_Witness ==
    /\ w_pc = "answered"
    /\ w_request.method = "GET"
    /\ w_request.args = [hub_mode |-> "publish", hub_topic |-> "topic", hub_challenge |-> "challenge"]
    /\ w_response.code = "400"
    /\ last_verification_time = Earlier

\* ------------------------------------------------------------------------
\* SpecSignature: verify_signature on every pair of headers
\* ------------------------------------------------------------------------

SignatureBodies == {"b1", "b2"}

\* digests of a body or of another one, under the secret or under another key
Digests ==
    { hexdigest(key, msg, digestmod)[1] :
        key \in {"secret", "other"}, msg \in SignatureBodies, digestmod \in {"sha1", "sha256"} }
        \cup {"deadbeef", "e_acute"}

\* header values: none, without "=", and algo=digest
HeaderValues ==
    {NoHeader, <<"sha256">>, <<"=">>}
        \cup { <<algo, "=">> : algo \in {"sha256", "sha1"} }
        \cup { <<algo, "=", digest>> : algo \in {"sha256", "SHA256", "sha1", "md5"}, digest \in Digests }
        \cup { <<"sha256", "=", digest, "=", digest>> : digest \in {"deadbeef"} }

InitSignature ==
    /\ MoreOff
    /\ CoreOff
    /\ HandleOff
    /\ RtOff
    /\ WebOff
    /\ RateOff
    /\ SchedOff
    /\ s_pc = "call"
    /\ s_headers \in [x_hub_signature_256 : HeaderValues, x_hub_signature : HeaderValues]
    /\ s_body \in SignatureBodies
    /\ s_secret \in {"", "secret"}
    /\ s_result = "none"

NextSignature == call_verify_signature

SpecSignature == InitSignature /\ [][NextSignature]_vars

\* the header that verify_signature reads
signature_header ==
    IF s_headers.x_hub_signature_256 # NoHeader
    THEN s_headers.x_hub_signature_256
    ELSE s_headers.x_hub_signature

\* the header names sha1 or sha256 and carries the HMAC of the body under the secret
header_verifies ==
    /\ signature_header # NoHeader
    /\ Len(split_once(signature_header)) = 2
    /\ \E digestmod \in {"sha1", "sha256"} :
        /\ lower(split_once(signature_header)[1]) = <<digestmod>>
        /\ split_once(signature_header)[2] = hexdigest(s_secret, s_body, digestmod)

\* C18: verify_signature returns True if and only if the secret is empty or the
\* signature header is present, names sha1 or sha256 and carries the HMAC of
\* the body under the secret; with a secret, it returns False otherwise.
C18_SignatureVerdict ==
    s_pc = "returned"
        => /\ s_result = "true" <=> (s_secret = "" \/ header_verifies)
           /\ (s_secret # "" /\ ~header_verifies) => s_result = "false"

\* the same for the headers whose digest is ASCII
C18_AsciiSignatureVerdict ==
    (s_pc = "returned" /\ (signature_header = NoHeader \/ isascii(signature_header)))
        => /\ s_result = "true" <=> (s_secret = "" \/ header_verifies)
           /\ (s_secret # "" /\ ~header_verifies) => s_result = "false"

\* ------------------------------------------------------------------------
\* SpecRate: the sending threads in _enforce_rate_limit
\* ------------------------------------------------------------------------

\* time.time() is far beyond the last_request_time = 0 of a new client
InitRate ==
    /\ MoreOff
    /\ CoreOff
    /\ HandleOff
    /\ RtOff
    /\ WebOff
    /\ SigOff
    /\ SchedOff
    /\ r_clock = rate_limit_delay
    /\ last_request_time = [c \in Clients |-> 0]
    /\ r_pc = [t \in RateThreads |-> "idle"]
    /\ r_wake = [t \in RateThreads |-> 0]
    /\ r_calls = <<>>

enforce_rate_limit == \E t \in RateThreads : read_last_request_time(t)

send_webhook == \E t \in RateThreads : write_last_request_time(t)

NextRate ==
    \/ pass_time
    \/ enforce_rate_limit
    \/ send_webhook

SpecRate == InitRate /\ [][NextRate]_vars

\* C20: two consecutive outbound calls of the process are at least
\* rate_limit_delay apart, whichever threads and clients made them.
C20_MinimumSpacing ==
    Len(r_calls) = 2 => r_calls[2].at - r_calls[1].at >= rate_limit_delay

\* the same for two consecutive calls of one thread
C20_OneThreadSpacing ==
    (Len(r_calls) = 2 /\ r_calls[1].thread = r_calls[2].thread)
        => r_calls[2].at - r_calls[1].at >= rate_limit_delay

\* ------------------------------------------------------------------------
\* SpecSched: the loop thread after start(), and stop()
\* ------------------------------------------------------------------------

InitSched ==
    /\ MoreOff
    /\ CoreOff
    /\ HandleOff
    /\ RtOff
    /\ WebOff
    /\ SigOff
    /\ RateOff
    /\ running = TRUE
    /\ check_interval_seconds \in { m * SecondsPerMinute : m \in 1..MaxIntervalMinutes }
    /\ k_pc = "loop"
    /\ wait_time = 0
    /\ k_sleep = 0
    /\ k_stopped_for = 0
    /\ k_cycles = 0
    /\ k_cycles_at_stop = 0
    /\ k_raised = NoneRaised
    /\ k_on_error = 0

NextSched ==
    \/ stop
    \/ one_second
    \/ loop_test
    \/ check_community_posts
    \/ on_posts_found
    \/ wait_test
    \/ wake
    \/ error_wake

SpecSched == InitSched /\ [][NextSched]_vars

\* the flag is cleared and the loop thread is asleep in the wait between two cycles
stopped_in_wait == ~running /\ k_pc = "sleep"

\* C21: the flag is re-read at sub-second granularity during the wait between
\* two cycles: once stop() cleared it, less than a second passes before the
\* loop thread leaves the wait, and no further cycle starts.
C21_SubSecondShutdown ==
    /\ stopped_in_wait => k_stopped_for = 0
    /\ ~running => k_cycles = k_cycles_at_stop

\* C21, amended: the flag is re-read every sleep_increment = 10 seconds during
\* the wait between two cycles (and after the 60 seconds that follow an
\* exception): once stop() cleared it, the loop thread leaves the wait within
\* 10 seconds, the sleep after an exception within 60, and no further cycle starts.
C21_ShutdownWithinIncrement ==
    /\ stopped_in_wait => k_stopped_for + k_sleep <= sleep_increment
    /\ (~running /\ k_pc = "error_sleep") => k_stopped_for + k_sleep <= error_sleep
    /\ ~running => k_cycles = k_cycles_at_stop

\* the thread ended after a stop() that found it asleep nine seconds before
C21_Witness ==
    /\ ~running
    /\ k_pc = "terminated"
    /\ k_stopped_for = sleep_increment - 1
    /\ k_cycles = 1
    /\ wait_time = sleep_increment

\* C22: every exception that a step of a check cycle lets escape, in the check
\* or in the handling of the posts, is followed by a call of on_error, and the
\* loop goes on.
C22_ErrorCallbackOnEveryException ==
    /\ k_on_error = k_raised.check_community_posts + k_raised.on_posts_found
    /\ running => k_pc # "terminated"

\* what holds: on_error is called for the exceptions that escape
\* _check_community_posts, and the loop goes on after either kind
C22_ErrorCallbackOnCheckException ==
    /\ k_on_error = k_raised.check_community_posts
    /\ running => k_pc # "terminated"

\* ------------------------------------------------------------------------
\* Further properties of the classifier (SpecClassify)
\* ------------------------------------------------------------------------

\* C23: from_websub_data gives LIVESTREAM to an event whose title has a
\* livestream keyword and that carries no other signal (no hint, no item from
\* the metadata lookup).
C23_KeywordMeansScheduled ==
    ( /\ c_pc = "classified"
      /\ on_fallback_path
      /\ c_data.live_broadcast_content = ""
      /\ has_indicator(c_data.title, fallback_live_indicators) )
        => c_type = LIVESTREAM

\* the lookup answered 200 with an empty items list
no_matching_item == c_pc = "classified" /\ c_key /\ c_api.outcome = "no_items"

item_not_completed ==
    /\ c_pc = "classified"
    /\ c_api.outcome = "item"
    /\ ~completed_rule(c_api.item)

\* C25: with an item to which no completed rule applies, the flag "upcoming"
\* gives LIVESTREAM, also when an actual start time is present.
C25_UpcomingIsScheduled ==
    (item_not_completed /\ c_api.item.liveBroadcastContent = "upcoming")
        => c_type = LIVESTREAM

\* C25, amended: the flag "upcoming" gives LIVESTREAM when no actual start time
\* is present; the rule for a present actual start time comes first, so with
\* one the same item is LIVESTREAM_LIVE.
C25_UpcomingWithoutStartIsScheduled ==
    (item_not_completed /\ c_api.item.liveBroadcastContent = "upcoming")
        => c_type = IF started(c_api.item) THEN LIVESTREAM_LIVE ELSE LIVESTREAM

\* an item that is flagged upcoming and has started
C25_Witness ==
    /\ item_not_completed
    /\ c_api.item.liveBroadcastContent = "upcoming"
    /\ started(c_api.item)
    /\ c_api.item.scheduledStartTime
    /\ c_type = LIVESTREAM_LIVE

\* C26: with an item that has an actual start time, no actual end time, an
\* upload status other than processed and a flag other than "upcoming", the
\* classification is LIVESTREAM_LIVE, also when the flag is "none" or missing.
C26_StartedIsLive ==
    ( /\ item_not_completed
      /\ started(c_api.item)
      /\ c_api.item.uploadStatus # "processed"
      /\ c_api.item.liveBroadcastContent # "upcoming" )
        => c_type = LIVESTREAM_LIVE

\* C26, amended: such an item is LIVESTREAM_LIVE when its flag is "live", and
\* LIVESTREAM_COMPLETED when its flag is "none", "completed" or missing.
C26_StartedIsLiveByFlag ==
    ( /\ item_not_completed
      /\ started(c_api.item)
      /\ c_api.item.uploadStatus # "processed"
      /\ c_api.item.liveBroadcastContent # "upcoming" )
        => c_type = IF c_api.item.liveBroadcastContent = "live"
                    THEN LIVESTREAM_LIVE
                    ELSE LIVESTREAM_COMPLETED

\* a started stream without a flag
C26_Witness ==
    /\ item_not_completed
    /\ started(c_api.item)
    /\ c_api.item.uploadStatus = "uploaded"
    /\ c_api.item.liveBroadcastContent = ""
    /\ c_type = LIVESTREAM_COMPLETED

\* the lookup returned an item that no completed, scheduled or live rule matches
no_rule_matches ==
    /\ item_not_completed
    /\ ~started(c_api.item)
    /\ ~scheduled(c_api.item)
    /\ c_api.item.liveBroadcastContent \notin {"upcoming", "live"}

FailureStatuses == {"500", "exception"}

\* the 2xx statuses of the model
SuccessStatuses == {"204", "200"}

\* C29: a send answered with a status that is neither success nor 429, or whose
\* network call raises, returns False with that call as its last one: the
\* next network call, if there is one, is the first call of the send to
\* another server.
C29_FailureIsNotRetried ==
    [][ /\ n_send'.status \in FailureStatuses => n_send'.result = "false"
        /\ (n_send.status \in FailureStatuses /\ n_send' # n_send)
              => /\ n_send'.calls = 1
                 /\ n_send'.webhook_url # n_send.webhook_url
                 /\ n_sends' = n_sends + 1 ]_vars

\* the send to the second server raised in its first network call
C29_Witness ==
    /\ n_pc = "done"
    /\ n_sends = 2
    /\ n_send.status = "exception"
    /\ n_send.calls = 1
    /\ n_send.result = "false"

\* C30: send_webhook_message returns True for every 2xx status of the
\* endpoint, and returns False or handles a throttle only for other statuses.
C30_Every2xxIsSuccess ==
    /\ n_send.status \in SuccessStatuses => n_send.result = "true"
    /\ n_send.result \in {"false", "retry"} => n_send.status \notin SuccessStatuses

\* C30, what holds: the send returns True for status 204 and for no other answer.
C30_Only204IsSuccess ==
    n_send.status # "none" => (n_send.result = "true" <=> n_send.status = "204")

\* ------------------------------------------------------------------------
\* SpecTable: check cycles and cleanups over the community_posts table
\* ------------------------------------------------------------------------

\* the earlier parts at rest
EarlyOff == CoreOff /\ HandleOff /\ RtOff /\ WebOff /\ SigOff /\ RateOff /\ SchedOff

InitTable ==
    /\ EarlyOff
    /\ FmtOff
    /\ AbleOff
    /\ ThreadOff
    /\ t_now = 0
    /\ t_feed = <<>>
    /\ t_db = {}
    /\ t_pc = "wait"
    /\ t_raw = <<>>
    /\ t_new = <<>>
    /\ t_cycle = NoCycle
    /\ t_log = [n \in 1..MaxTablePosts |-> NoLog]

NextTable ==
    \/ table_tick
    \/ table_publish
    \/ table_scrape
    \/ table_store
    \/ table_handle
    \/ table_cleanup

SpecTable == InitTable /\ [][NextTable]_vars

\* ------------------------------------------------------------------------
\* Properties of the posts table (SpecTable)
\* ------------------------------------------------------------------------

\* the instant at which post n of the tab was published
published_at(n) == t_feed[n].at

\* C31: the post that handle_new_posts delivers was published no earlier than
\* the other new posts of the cycle: no new post published strictly later is
\* marked notified without a notification.
C31_LatestPostIsDelivered ==
    t_cycle.outcome = "handled" =>
        \A n \in t_cycle.older : published_at(n) <= published_at(t_cycle.latest)

\* C31, what holds: the handler delivers a post whose published_time, as
\* _parse_time_since computed it, is the largest of the new posts, and marks
\* the others.
C31_LatestByParsedTime ==
    [][ (t_pc = "handle" /\ t_pc' = "wait") =>
            /\ \E j \in 1..Len(t_new) :
                  /\ content_of(t_new[j].post_id) = t_cycle'.latest
                  /\ \A i \in 1..Len(t_new) : t_new[i].published_time <= t_new[j].published_time
            /\ \A n \in t_cycle'.older : n \in notified_contents(t_db') ]_vars

\* the post has had a row with notified = True
was_notified(n) == t_log[n].notified

\* C32: the notified flag of a post goes from False to True and never back: a
\* post that has been notified is never again in the table with notified = False,
\* whatever store_post, mark_notified, handle_new_posts and cleanup_old_posts do.
C32_NotifiedNeverReverts ==
    \A n \in 1..Len(t_feed) :
        (was_notified(n) /\ t_feed[n].link)
            => \A row \in t_db : content_of(row.post_id) = n => row.notified

\* C32, what holds: no operation writes notified = False into a row that has
\* notified = True; a notified row stays as it is or is deleted.
C32_NoRowIsUnmarked ==
    [][ \A row \in t_db : row.notified => (row \in t_db' \/ rows_of(t_db', row.post_id) = {}) ]_vars

C37_CleanupKeepsUnnotified ==
    [][ \A row \in t_db \ t_db' :
            \/ rows_of(t_db', row.post_id) # {}
            \/ /\ row.notified
               /\ \E window \in CleanupDays : row.published_time < t_now - window * TicksPerDay ]_vars

\* a cleanup deleted the row of one post and kept an unnotified row as old
C37_Witness ==
    \E n \in 1..MaxTablePosts :
        /\ t_log[n].deleted
        /\ \E row \in t_db :
            /\ ~row.notified
            /\ \E window \in CleanupDays : row.published_time < t_now - window * TicksPerDay

\* C38: a post that the scraper returns in several cycles is reported as new
\* in at most one of them, with or without a /post/ segment in its permalink.
C38_ReportedOnce ==
    \A n \in 1..MaxTablePosts : ~t_log[n].deleted => t_log[n].reported <= 1

\* C38, what holds: a post whose permalink has a /post/ segment is reported as
\* new once as long as cleanup_old_posts has not deleted its row.
C38_LinkedPostReportedOnce ==
    \A n \in 1..Len(t_feed) :
        (t_feed[n].link /\ ~t_log[n].deleted) => t_log[n].reported <= 1

\* ------------------------------------------------------------------------
\* Further properties of the request path (SpecNotify)
\* ------------------------------------------------------------------------

\* C33: for an event published more than 24 hours ago the handler returns True
\* and calls send_youtube_notification for no server, whatever its type; an
\* event whose published value is absent or is not a timestamp is not filtered.
C33_StaleIsFiltered ==
    /\ (c_pc = "classified" /\ n_published.kind = "timestamp" /\ n_published.age > RecentHours)
          => (n_pc = "done" /\ n_result = "true" /\ n_sends = 0 /\ n_send = NoSend)
    /\ ( /\ c_pc = "classified"
         /\ n_published.kind \in {"absent", "unparseable"}
         /\ c_type # LIVESTREAM_COMPLETED
         /\ get_servers_for_type(discord_config, c_type) # <<>> )
          => (n_pc = "sending" \/ n_sends > 0)

\* a live stream published 25 hours ago, with a livestream server configured
C33_Witness ==
    /\ c_pc = "classified"
    /\ c_type = LIVESTREAM_LIVE
    /\ n_published = [kind |-> "timestamp", age |-> RecentHours + 1]
    /\ get_servers_for_type(discord_config, c_type) # <<>>
    /\ n_pc = "done"
    /\ n_result = "true"
    /\ n_sends = 0

\* ------------------------------------------------------------------------
\* Further properties of the channel handle cache (SpecHandle)
\* ------------------------------------------------------------------------

\* C35: _resolve_channel_handle reads the cache, then asks the API, then the
\* page, and stops at the first handle: a cache hit asks neither, a handle of
\* the API or of the page is in the cache when it is returned, and without a
\* handle yp-dl gets the URL built from the channel id.
C35_SourcesInOrder ==
    h_call.made =>
        /\ h_call.consulted \in {<<>>, <<"api">>, <<"api", "html">>}
        /\ h_call.consulted = <<>> <=> get_cached_handle(h_call.entry, h_call.at) # NoHandle
        /\ h_call.consulted = <<>> => (h_call.result = h_call.entry.handle /\ channel_handles = h_call.entry)
        /\ h_call.consulted = <<"api">> => h_call.result \in ApiHandles \ {NoHandle}
        /\ h_call.consulted = <<"api", "html">> => h_call.result \in HtmlHandles
        /\ (h_call.consulted # <<>> /\ h_call.result # NoHandle)
              => (channel_handles.handle = h_call.result /\ channel_handles.instant = h_call.at)
        /\ h_call.result = NoHandle
              => /\ h_call.channel_url = <<"https://www.youtube.com/channel/", "channel_id">>
                 /\ channel_handles = h_call.entry
        /\ h_call.result # NoHandle
              => h_call.channel_url = <<"https://www.youtube.com/", h_call.result>>

\* a stale entry, no handle from the API, and the handle of the page cached
C35_Witness ==
    /\ h_call.made
    /\ h_call.entry # NoEntry
    /\ h_call.consulted = <<"api", "html">>
    /\ h_call.result = "@page"
    /\ channel_handles.handle = "@page"
    /\ h_call.channel_url = <<"https://www.youtube.com/", "@page">>

\* ------------------------------------------------------------------------
\* SpecFormat: format_simple_message on every template type and data
\* ------------------------------------------------------------------------

InitFormat ==
    /\ EarlyOff
    /\ TableOff
    /\ AbleOff
    /\ ThreadOff
    /\ f_pc = "call"
    /\ f_template_type \in TemplateTypes
    /\ f_data \in FormatData
    /\ f_role_mentions \in RoleMentions
    /\ f_message = <<>>

NextFormat ==
    \/ format_simple_message
    \/ next_message

SpecFormat == InitFormat /\ [][NextFormat]_vars

\* the scheduled_start_time is absent, or is not a text that fromisoformat reads
no_scheduled_time ==
    \/ ~schedule_truthy(f_data.scheduled_start_time)
    \/ f_data.scheduled_start_time.kind # "str"
    \/ f_data.scheduled_start_time.suffix = <<"?">>
    \/ f_data.scheduled_start_time.date = "invalid-timestamp"

\* C36: the message of a scheduled livestream whose scheduled_start_time is
\* absent or cannot be parsed is returned with "soon" as its time and with the
\* role mentions, the title and the url in their places.
C36_SoonWithoutSchedule ==
    (f_pc = "returned" /\ f_template_type = "livestream" /\ no_scheduled_time)
        => f_message =
              join_mentions(f_role_mentions)
                \o <<" starting ", "soon", ": [", get_or(f_data.title, "Unknown Title"), "](",
                     get_or(f_data.url, "https://youtube.com"), ")">>

\* the invalid timestamp of the tests, with one role mention
C36_Witness ==
    /\ f_pc = "returned"
    /\ f_template_type = "livestream"
    /\ f_data.scheduled_start_time.date = "invalid-timestamp"
    /\ f_role_mentions = <<"234">>
    /\ f_message = <<"<@&", "234", ">", " starting ", "soon", ": [", "Test Stream", "](",
                     "https://www.youtube.com/watch?v=abc", ")">>

\* ------------------------------------------------------------------------
\* SpecDisable: disable_server and enable_server between deliveries
\* ------------------------------------------------------------------------

InitDisable ==
    /\ EarlyOff
    /\ TableOff
    /\ FmtOff
    /\ ThreadOff
    /\ d_settings \in UrlSettings
    /\ d_servers = config_from_settings(d_settings)
    /\ d_disabled = {}
    /\ d_last = NoDelivery

NextDisable ==
    \/ disable_server
    \/ enable_server
    \/ deliver_notification
    \/ deliver_community_post

SpecDisable == InitDisable /\ [][NextDisable]_vars

\* C39: no delivery, of an upload, a livestream or a community post, is sent
\* to a webhook URL that disable_server was given and enable_server was not
\* given since.
C39_DisabledGetsNothing ==
    \A i \in 1..Len(d_last.urls) : d_last.urls[i] \notin d_last.disabled

\* ------------------------------------------------------------------------
\* SpecThreads: start() and stop() called one after the other
\* ------------------------------------------------------------------------

InitThreads ==
    /\ EarlyOff
    /\ TableOff
    /\ FmtOff
    /\ AbleOff
    /\ ThreadOff

NextThreads ==
    \/ start_scheduler
    \/ stop_scheduler
    \/ join_returns
    \/ \E t \in LoopThreads : thread_loop_test(t)
    \/ \E t \in LoopThreads : thread_check(t)
    \/ \E t \in LoopThreads : thread_wait_test(t)
    \/ \E t \in LoopThreads : thread_wake(t)
    \/ thread_time_passes

SpecThreads == InitThreads /\ [][NextThreads]_vars

\* C40: at most one thread is inside _run_scheduler, and a thread that stop()
\* asked to finish never passes `while self.running` again after a later start().
C40_OneLoopThread ==
    /\ Cardinality(in_run_scheduler) <= 1
    /\ x_resumed = {}

\* a start() while the flag is set creates no thread
C40_StartWhileRunningSpawnsNothing ==
    [][(x_running /\ x_caller = "idle" /\ x_call' = "already running" /\ x_call' # x_call)
          => (x_pc' = x_pc /\ x_thread' = x_thread)]_vars

====
